---------------------------- MODULE Spec2Model ----------------------------
(***************************************************************************)
(* The optimistic execution scheduler of server/v2/cometbft/oe            *)
(* (optimistic_execution.go): one foreground caller issuing Execute,      *)
(* Reset, Initialized, AbortIfNeeded, Abort and WaitResult, and the       *)
(* goroutines started by Execute.  Every goroutine is modelled statement  *)
(* by statement; a foreground method whose body runs under oe.mtx is one  *)
(* step, taken when the mutex is free.                                    *)
(***************************************************************************)
EXTENDS Integers, Sequences, FiniteSets, TLC

\* Number of Execute calls a behaviour may contain.
MaxRuns == 2

\* rand.Intn(100) in AbortIfNeeded.
RandMod == 100

\* The draws of rand.Intn(100) that are told apart: the least, the greatest,
\* and those on either side of an abort rate of 50.
Draws == {0, 49, 50, RandMod - 1}

\* Values WithAbortRate may have been given at construction.
AbortRates == {0, 50, 100}

\* The proposals the caller may hand to Execute, and the hashes it may
\* hand to AbortIfNeeded (3 is the hash of no proposal).
ProposalIds == {1, 2}
Hashes == {1, 2, 3}

VARIABLES
    isNil,        \* the receiver is a nil *OptimisticExecution
    abortRate,    \* oe.abortRate
    mtx,          \* oe.mtx: 0 free, r held by the goroutine of run r
    stopCh,       \* oe.stopCh: 0 nil, else index into chans
    request,      \* oe.request
    response,     \* oe.response
    err,          \* oe.err
    cancelFunc,   \* oe.cancelFunc: 0 nil, else the run whose context it cancels
    initialized,  \* oe.initialized
    chans,        \* the channels made by Execute: "open" or "closed"
    cancelled,    \* per run: its context has been cancelled
    tasks,        \* per run: the goroutine started by Execute
    pc,           \* where the foreground caller is
    tmp,          \* WaitResult: oe.response as loaded for the return statement
    ret,          \* the last foreground call that returned, and what it returned
    scen,         \* progress through Execute, AbortIfNeeded(other hash), WaitResult
    crashed       \* the process has panicked

vars == <<isNil, abortRate, mtx, stopCh, request, response, err, cancelFunc,
          initialized, chans, cancelled, tasks, pc, tmp, ret, scen, crashed>>


\* The hypervisor of RFC 003 (cross language account/module execution
\* model): the router with its call stack, the state handler it drives, and
\* the configuration it was built with.
VARIABLES
    callStack,      \* the frames of the calls in progress, the root call first
    txs,            \* state handler: the open nested transactions, outermost first
    gasConsumed,    \* gas consumed since the external call
    middleware,     \* authorization middleware: the <<real, claimed>> pairs it approves
    hvState,        \* "Idle", "Dispatching", "Committed", "RolledBack", "Unwound"
    calls,          \* the state handler calls the router made in its last step
    delivery,       \* what the router's last step delivered, and to whom
    accounts,       \* the addresses mapped to a handler id: the accounts that exist
    created,        \* how many addresses the hypervisor has generated
    loadState,      \* "Loading" modules, "Ready" to dispatch, or "Failed" to load
    routes          \* the <<message name, module address>> pairs for module messages

\* The mappings the hypervisor keeps.
registry == <<accounts, created, loadState, routes>>

hvars == <<callStack, txs, gasConsumed, middleware, hvState, calls, delivery,
           accounts, created, loadState, routes>>

\* Nothing delivered: the router has not taken a step.
NoDelivery == [kind |-> "none", to |-> 0, code |-> 0, caller |-> 0]

\* The hypervisor before an external call, with no authorization middleware,
\* no module loaded and no account created.
RouterNew ==
    /\ callStack = <<>>
    /\ txs = <<>>
    /\ gasConsumed = 0
    /\ middleware = {}
    /\ hvState = "Idle"
    /\ calls = <<>>
    /\ delivery = NoDelivery
    /\ accounts = {}
    /\ created = 0
    /\ loadState = "Loading"
    /\ routes = {}

\* A message packet passed from one environment to another (RFC 003, message
\* data and packet specification).
VARIABLES
    sourcePacket,   \* the packet in the environment of the caller
    targetPacket,   \* the packet in the environment of the handler
    memA,           \* the buffers of the caller's environment; native pointer i is buffer i
    memB,           \* the buffers of the handler's environment
    phase           \* "none", "built", "passed", "executed", "returned"

pvars == <<sourcePacket, targetPacket, memA, memB, phase>>

\* No packet.
PacketNew ==
    /\ sourcePacket = <<>>
    /\ targetPacket = <<>>
    /\ memA = <<>>
    /\ memB = <<>>
    /\ phase = "none"

\* The transaction factory of client/v2 (tx.Factory) and one call of its
\* PrintUnsignedTx.
VARIABLES
    factory,        \* the Factory the method is called on
    clientCtx,      \* the client context passed, with what the node it reaches answers
    stderr,         \* the gas estimates written to os.Stderr
    output,         \* the transactions printed to the writer of the context
    printErr        \* the error returned; "pending" before the call

fvars == <<factory, clientCtx, stderr, output, printErr>>

\* No factory.
FactoryNew ==
    /\ factory = <<>>
    /\ clientCtx = <<>>
    /\ stderr = <<>>
    /\ output = <<>>
    /\ printErr = "pending"

\* The iterator of the SQLite storage backend (store/v2/storage/sqlite) over
\* the table state_storage, and its one caller.
VARIABLES
    storage,          \* the rows of state_storage
    earliestVersion,  \* db.earliestVersion
    query,            \* the arguments newIterator is called with
    itr,              \* the iterator newIterator returned, when made
    made,             \* newIterator returned a non-nil iterator
    newErr,           \* the error newIterator returned; "pending" before the call
    called,           \* the last method called on the iterator and its outcome
    loop,             \* where the caller is in for ; itr.Valid(); itr.Next()
    yielded           \* what Key() and Value() returned in the body of that loop

ivars == <<storage, earliestVersion, query, itr, made, newErr, called, loop,
           yielded>>

\* No database, no iterator.
IteratorNew ==
    /\ storage = {}
    /\ earliestVersion = 0
    /\ query = <<>>
    /\ itr = <<>>
    /\ made = FALSE
    /\ newErr = "pending"
    /\ called = <<>>
    /\ loop = "none"
    /\ yielded = <<>>

\* The history of validator sets of the simulation (simsx/v2).
VARIABLES
    history,        \* the ValSetHistory
    added,          \* the Add calls made, in order: the entry each one added
    evidence        \* what the last MissBehaviour returned, and for which index

vhvars == <<history, added, evidence>>

\* No history.
HistoryNew ==
    /\ history = <<>>
    /\ added = <<>>
    /\ evidence = <<>>

\* What a step of one component leaves alone: the variables of the others.
outsideScheduler == <<hvars, pvars, fvars, ivars, vhvars>>
outsideRouter == <<vars, pvars, fvars, ivars, vhvars>>
outsidePackets == <<vars, hvars, fvars, ivars, vhvars>>
outsideFactory == <<vars, hvars, pvars, ivars, vhvars>>
outsideIterator == <<vars, hvars, pvars, fvars, vhvars>>
outsideHistory == <<vars, hvars, pvars, fvars, ivars>>

-----------------------------------------------------------------------------
(* Data *)

\* abci.ProcessProposalRequest, by identity i.
Proposal(i) ==
    [Txs |-> 10 + i, ProposedLastCommit |-> 20 + i, Misbehavior |-> 30 + i,
     Hash |-> i, Height |-> 40 + i, Time |-> 50 + i,
     NextValidatorsHash |-> 60 + i, ProposerAddress |-> 70 + i]

NilRequest ==
    [isNil |-> TRUE, Txs |-> 0, DecidedLastCommit |-> 0, Misbehavior |-> 0,
     Hash |-> 0, Height |-> 0, Time |-> 0, NextValidatorsHash |-> 0,
     ProposerAddress |-> 0]

\* The abci.FinalizeBlockRequest Execute builds from a proposal.
FinalizeBlockRequestOf(req) ==
    [isNil |-> FALSE,
     Txs |-> req.Txs,
     DecidedLastCommit |-> req.ProposedLastCommit,
     Misbehavior |-> req.Misbehavior,
     Hash |-> req.Hash,
     Height |-> req.Height,
     Time |-> req.Time,
     NextValidatorsHash |-> req.NextValidatorsHash,
     ProposerAddress |-> req.ProposerAddress]

NilResponse == [isNil |-> TRUE, Resp |-> 0, StateChanges |-> 0, DecodedTxs |-> 0]

\* &FinalizeBlockResponse{Resp, StateChanges, DecodedTxs} from what finalize returned.
FinalizeBlockResponseOf(out) ==
    [isNil |-> FALSE, Resp |-> out.resp, StateChanges |-> out.changes,
     DecodedTxs |-> out.txs]

\* What a FinalizeBlockFunc call of run r can return: its complete result
\* (the objects made by run r, and a nil error) or the context's error.  The
\* scheduler passes the four values on without looking at them, so an error
\* of the function's own is not told apart from these.
NoOut == [resp |-> 0, changes |-> 0, txs |-> 0, err |-> "none"]
OkOut(r) == [resp |-> r, changes |-> r, txs |-> r, err |-> "nil"]
CanceledOut == [resp |-> 0, changes |-> 0, txs |-> 0, err |-> "canceled"]

VoidRet(op) == [op |-> op, b |-> FALSE, resp |-> NilResponse, err |-> "nil"]
BoolRet(op, b) == [op |-> op, b |-> b, resp |-> NilResponse, err |-> "nil"]

Runs == 1..Len(tasks)

\* A goroutine that Execute started and that has not run to its end.
InFlight(r) == tasks[r].pc # "done"

ChanClosed(c) == c # 0 /\ chans[c] = "closed"

-----------------------------------------------------------------------------
(* Construction *)

\* The scheduler as constructed, without abort rate.
SchedulerNew ==
    /\ isNil = FALSE /\ abortRate = 0 /\ mtx = 0 /\ stopCh = 0
    /\ request = NilRequest /\ response = NilResponse /\ err = "nil"
    /\ cancelFunc = 0 /\ initialized = FALSE
    /\ chans = <<>> /\ cancelled = <<>> /\ tasks = <<>>
    /\ pc = "idle" /\ tmp = NilResponse /\ ret = VoidRet("none")
    /\ scen = 0 /\ crashed = FALSE

\* The other components as constructed, for the behaviours of one component.
OutsideSchedulerNew ==
    RouterNew /\ PacketNew /\ FactoryNew /\ IteratorNew /\ HistoryNew
OutsideRouterNew ==
    SchedulerNew /\ PacketNew /\ FactoryNew /\ IteratorNew /\ HistoryNew
OutsidePacketsNew ==
    SchedulerNew /\ RouterNew /\ FactoryNew /\ IteratorNew /\ HistoryNew
OutsideFactoryNew ==
    SchedulerNew /\ RouterNew /\ PacketNew /\ IteratorNew /\ HistoryNew
OutsideIteratorNew ==
    SchedulerNew /\ RouterNew /\ PacketNew /\ FactoryNew /\ HistoryNew
OutsideHistoryNew ==
    SchedulerNew /\ RouterNew /\ PacketNew /\ FactoryNew /\ IteratorNew

Init ==
    /\ isNil \in BOOLEAN
    /\ abortRate \in AbortRates
    /\ mtx = 0
    /\ stopCh = 0
    /\ request = NilRequest
    /\ response = NilResponse
    /\ err = "nil"
    /\ cancelFunc = 0
    /\ initialized = FALSE
    /\ chans = <<>>
    /\ cancelled = <<>>
    /\ tasks = <<>>
    /\ pc = "idle"
    /\ tmp = NilResponse
    /\ ret = VoidRet("none")
    /\ scen = 0
    /\ crashed = FALSE
    /\ OutsideSchedulerNew

\* A nil pointer dereference, a call of a nil func or a second close of a
\* channel: the panic is not recovered and the process ends.
Panics ==
    /\ crashed' = TRUE
    /\ UNCHANGED <<isNil, abortRate, mtx, stopCh, request, response, err,
                   cancelFunc, initialized, chans, cancelled, tasks, pc, tmp,
                   ret, scen>>


-----------------------------------------------------------------------------
(* Foreground calls.  A method whose body runs between oe.mtx.Lock() and the *)
(* deferred Unlock is one step, taken when the mutex is free: until then the *)
(* caller is blocked in Lock.  Abort and WaitResult do not take the mutex    *)
(* and have a step for each statement that can block or race.                *)

\* Reset as it would be if it also dropped the cancellation handle and the
\* completion channel.
ResetAlsoHandles ==
    /\ ~crashed /\ pc = "idle"
    /\ IF isNil
         THEN Panics
         ELSE /\ mtx = 0
              /\ request' = NilRequest
              /\ response' = NilResponse
              /\ err' = "nil"
              /\ initialized' = FALSE
              /\ cancelFunc' = 0
              /\ stopCh' = 0
              /\ ret' = VoidRet("Reset")
              /\ scen' = 0
              /\ UNCHANGED <<isNil, abortRate, mtx, chans, cancelled, tasks,
                             pc, tmp, crashed>>

\* Reset as it would be if it left the initialized flag alone.
ResetKeepsInitialized ==
    /\ ~crashed /\ pc = "idle"
    /\ IF isNil
         THEN Panics
         ELSE /\ mtx = 0
              /\ request' = NilRequest
              /\ response' = NilResponse
              /\ err' = "nil"
              /\ ret' = VoidRet("Reset")
              /\ scen' = 0
              /\ UNCHANGED <<isNil, abortRate, mtx, stopCh, cancelFunc, chans,
                             cancelled, tasks, pc, tmp, initialized, crashed>>

\* Reset: the receiver is dereferenced by oe.mtx.Lock().
Reset ==
    /\ ~crashed /\ pc = "idle"
    /\ IF isNil
         THEN Panics
         ELSE /\ mtx = 0
              /\ request' = NilRequest
              /\ response' = NilResponse
              /\ err' = "nil"
              /\ initialized' = FALSE
              /\ ret' = VoidRet("Reset")
              /\ scen' = 0
              /\ UNCHANGED <<isNil, abortRate, mtx, stopCh, cancelFunc, chans,
                             cancelled, tasks, pc, tmp, crashed>>

\* Initialized: false on a nil receiver, else oe.initialized read under the mutex.
Initialized ==
    /\ ~crashed /\ pc = "idle"
    /\ isNil \/ mtx = 0
    /\ ret' = BoolRet("Initialized", IF isNil THEN FALSE ELSE initialized)
    /\ scen' = 0
    /\ UNCHANGED <<isNil, abortRate, mtx, stopCh, request, response, err,
                   cancelFunc, initialized, chans, cancelled, tasks, pc, tmp,
                   crashed>>

\* Execute(req): a new channel, the request built from the proposal, a new
\* cancellable context, and the go statement.  The goroutine is created here
\* and runs its first statement in TaskStart.  The receiver is dereferenced
\* by oe.mtx.Lock().
Execute(p) ==
    /\ ~crashed /\ pc = "idle"
    /\ Len(tasks) < MaxRuns
    /\ IF isNil
         THEN Panics
         ELSE /\ mtx = 0
              /\ LET r == Len(tasks) + 1 IN
                   /\ chans' = Append(chans, "open")
                   /\ stopCh' = r
                   /\ request' = FinalizeBlockRequestOf(Proposal(p))
                   /\ cancelled' = Append(cancelled, FALSE)
                   /\ cancelFunc' = r
                   /\ initialized' = TRUE
                   /\ tasks' = Append(tasks, [pc |-> "spawned",
                                              req |-> NilRequest,
                                              out |-> NoOut,
                                              proposal |-> p])
              /\ scen' = IF \A q \in Runs : ~InFlight(q) THEN 1 ELSE 0
              /\ ret' = VoidRet("Execute")
              /\ UNCHANGED <<isNil, abortRate, mtx, response, err, pc, tmp,
                             crashed>>

\* bytes.Equal(oe.request.Hash, reqHash)
HashEqual(a, b) == a = b

\* oe.abortRate > 0 && rand.Intn(100) < oe.abortRate, rnd being the draw.
AbortRateFires(rate, rnd) == rate > 0 /\ rnd < rate

\* The decision with the comparison of the hashes the wrong way round.
ShouldAbortInverted(reqHash, h, rate, rnd) ==
    IF HashEqual(reqHash, h) THEN TRUE ELSE AbortRateFires(rate, rnd)

\* The decision of AbortIfNeeded for the held request's hash, the caller's
\* hash and the random draw: TRUE means cancel and return true.
ShouldAbort(reqHash, h, rate, rnd) ==
    IF ~HashEqual(reqHash, h) THEN TRUE ELSE AbortRateFires(rate, rnd)

\* oe.cancelFunc(): cancels the context it was derived with; cancelling twice
\* is allowed.
Cancel(c) == [cancelled EXCEPT ![c] = TRUE]

\* What AbortIfNeeded does to the contexts when it has decided abort.
AbortIfNeededCancels(abort) == IF abort THEN Cancel(cancelFunc) ELSE cancelled

\* AbortIfNeeded as it would be if, like Abort, it went on to receive from
\* oe.stopCh after cancelling.
AbortIfNeededThenWaits(h) ==
    /\ ~crashed /\ pc = "idle"
    /\ ~isNil /\ mtx = 0 /\ ~request.isNil /\ cancelFunc # 0
    /\ \E rnd \in Draws :
          LET abort == ShouldAbort(request.Hash, h, abortRate, rnd) IN
            /\ cancelled' = AbortIfNeededCancels(abort)
            /\ ret' = BoolRet("AbortIfNeeded", abort)
            /\ pc' = IF abort THEN "abort_recv" ELSE pc
    /\ scen' = 0
    /\ UNCHANGED <<isNil, abortRate, mtx, stopCh, request, response, err,
                   cancelFunc, initialized, chans, tasks, tmp, crashed>>

\* AbortIfNeeded(h): false on a nil receiver; else, under the mutex,
\* oe.request.Hash dereferences oe.request, and a nil cancelFunc panics.
AbortIfNeeded(h) ==
    /\ ~crashed /\ pc = "idle"
    /\ IF isNil
         THEN /\ ret' = BoolRet("AbortIfNeeded", FALSE)
              /\ scen' = 0
              /\ UNCHANGED <<isNil, abortRate, mtx, stopCh, request, response,
                             err, cancelFunc, initialized, chans, cancelled,
                             tasks, pc, tmp, crashed>>
         ELSE /\ mtx = 0
              /\ IF request.isNil
                   THEN Panics
                   ELSE \E rnd \in Draws :
                          LET abort == ShouldAbort(request.Hash, h, abortRate, rnd) IN
                            IF abort /\ cancelFunc = 0
                              THEN Panics
                              ELSE /\ cancelled' = AbortIfNeededCancels(abort)
                                   /\ ret' = BoolRet("AbortIfNeeded", abort)
                                   /\ scen' = IF /\ scen = 1
                                                 /\ ~HashEqual(request.Hash, h)
                                                 /\ ~ChanClosed(stopCh)
                                                THEN 2 ELSE 0
                                   /\ UNCHANGED <<isNil, abortRate, mtx, stopCh,
                                                  request, response, err,
                                                  cancelFunc, initialized,
                                                  chans, tasks, pc, tmp,
                                                  crashed>>

\* Abort: returns at once on a nil receiver or a nil cancelFunc; else cancels,
\* without the mutex, and goes on to receive from oe.stopCh.
AbortCall ==
    /\ ~crashed /\ pc = "idle"
    /\ IF isNil \/ cancelFunc = 0
         THEN /\ ret' = VoidRet("Abort")
              /\ UNCHANGED <<cancelled, pc>>
         ELSE /\ cancelled' = Cancel(cancelFunc)
              /\ pc' = "abort_recv"
              /\ UNCHANGED ret
    /\ scen' = 0
    /\ UNCHANGED <<isNil, abortRate, mtx, stopCh, request, response, err,
                   cancelFunc, initialized, chans, tasks, tmp, crashed>>

\* <-oe.stopCh: a receive from a closed channel returns, from an open or a
\* nil channel it blocks.
Received(c) == ChanClosed(c)

\* Abort as it would be without its receive from oe.stopCh.
AbortReturnWithoutReceive ==
    /\ ~crashed /\ pc = "abort_recv"
    /\ pc' = "idle"
    /\ ret' = BoolRet("Abort", TRUE)
    /\ UNCHANGED <<isNil, abortRate, mtx, stopCh, request, response, err,
                   cancelFunc, initialized, chans, cancelled, tasks, tmp,
                   scen, crashed>>

AbortReturn ==
    /\ ~crashed /\ pc = "abort_recv"
    /\ Received(stopCh)
    /\ pc' = "idle"
    /\ ret' = BoolRet("Abort", TRUE)
    /\ UNCHANGED <<isNil, abortRate, mtx, stopCh, request, response, err,
                   cancelFunc, initialized, chans, cancelled, tasks, tmp,
                   scen, crashed>>

\* WaitResult: oe.stopCh dereferences the receiver.
WaitResultCall ==
    /\ ~crashed /\ pc = "idle"
    /\ IF isNil
         THEN Panics
         ELSE /\ pc' = "wait_recv"
              /\ scen' = IF scen = 2 THEN 2 ELSE 0
              /\ UNCHANGED <<isNil, abortRate, mtx, stopCh, request, response,
                             err, cancelFunc, initialized, chans, cancelled,
                             tasks, tmp, ret, crashed>>

\* WaitResult as it would be without its receive from oe.stopCh.
WaitResultWithoutReceive ==
    /\ ~crashed /\ pc = "wait_recv"
    /\ tmp' = response
    /\ pc' = "wait_err"
    /\ UNCHANGED <<isNil, abortRate, mtx, stopCh, request, response, err,
                   cancelFunc, initialized, chans, cancelled, tasks, ret,
                   scen, crashed>>

\* The receive returns and the return statement loads oe.response, without
\* the mutex.
WaitResultRecv ==
    /\ ~crashed /\ pc = "wait_recv"
    /\ Received(stopCh)
    /\ tmp' = response
    /\ pc' = "wait_err"
    /\ UNCHANGED <<isNil, abortRate, mtx, stopCh, request, response, err,
                   cancelFunc, initialized, chans, cancelled, tasks, ret,
                   scen, crashed>>

\* The return statement loads oe.err and WaitResult returns the pair.
WaitResultReturn ==
    /\ ~crashed /\ pc = "wait_err"
    /\ pc' = "idle"
    /\ ret' = [op |-> "WaitResult", b |-> FALSE, resp |-> tmp, err |-> err]
    /\ tmp' = NilResponse
    /\ scen' = IF scen = 2 THEN 3 ELSE 0
    /\ UNCHANGED <<isNil, abortRate, mtx, stopCh, request, response, err,
                   cancelFunc, initialized, chans, cancelled, tasks, crashed>>

-----------------------------------------------------------------------------
(* The goroutine of run r (the func literal of Execute).  It refers to oe,   *)
(* not to copies: oe.request and oe.stopCh are read when the statement that  *)
(* names them runs.  Only ctx is the context of its own run.                 *)

SetTask(r, f, v) == [tasks EXCEPT ![r][f] = v]

\* oe.finalizeBlockFunc(ctx, oe.request): the argument is oe.request as it
\* is when the goroutine gets to run, read without the mutex.
RequestPassed(r) == request

\* The goroutine as it would be if it took oe.mtx before calling finalize.
TaskStartUnderLock(r) ==
    /\ ~crashed /\ tasks[r].pc = "spawned"
    /\ mtx = 0
    /\ mtx' = r
    /\ tasks' = [tasks EXCEPT ![r].pc = "finalize", ![r].req = RequestPassed(r)]
    /\ UNCHANGED <<isNil, abortRate, stopCh, request, response, err,
                   cancelFunc, initialized, chans, cancelled, pc, tmp, ret,
                   scen, crashed>>

\* The goroutine starts: it evaluates the arguments and calls finalize.
TaskStart(r) ==
    /\ ~crashed /\ tasks[r].pc = "spawned"
    /\ tasks' = [tasks EXCEPT ![r].pc = "finalize", ![r].req = RequestPassed(r)]
    /\ UNCHANGED <<isNil, abortRate, mtx, stopCh, request, response, err,
                   cancelFunc, initialized, chans, cancelled, pc, tmp, ret, scen, crashed>>

\* The goroutine once its finalize call has returned out: the call's
\* argument, and the proposal it should have come from, are no longer kept.
Returned(out) ==
    [pc |-> "returned", req |-> NilRequest, out |-> out, proposal |-> 0]

\* The finalize function is at one of its check points, finds its context
\* cancelled and returns the context's error.
FinalizeObservesCancel(r) ==
    /\ ~crashed /\ tasks[r].pc = "finalize"
    /\ cancelled[r]
    /\ tasks' = [tasks EXCEPT ![r] = Returned(CanceledOut)]
    /\ UNCHANGED <<isNil, abortRate, mtx, stopCh, request, response, err,
                   cancelFunc, initialized, chans, cancelled, pc, tmp, ret, scen, crashed>>

\* The finalize function returns its complete result, without having looked
\* at its context again.
FinalizeReturns(r) ==
    /\ ~crashed /\ tasks[r].pc = "finalize"
    /\ tasks' = [tasks EXCEPT ![r] = Returned(OkOut(r))]
    /\ UNCHANGED <<isNil, abortRate, mtx, stopCh, request, response, err,
                   cancelFunc, initialized, chans, cancelled, pc, tmp, ret, scen, crashed>>

\* oe.mtx.Lock(), then logger.Debug("OE finished", ..., oe.request.Height,
\* ..., oe.request.Hash): the arguments dereference oe.request, which no
\* one can change while the goroutine holds the mutex.
TaskLock(r) ==
    /\ ~crashed /\ tasks[r].pc = "returned"
    /\ mtx = 0
    /\ IF request.isNil
         THEN Panics
         ELSE /\ mtx' = r
              /\ tasks' = SetTask(r, "pc", "locked")
              /\ UNCHANGED <<isNil, abortRate, stopCh, request, response, err,
                             cancelFunc, initialized, chans, cancelled, pc,
                             tmp, ret, scen, crashed>>

\* oe.response, oe.err = &FinalizeBlockResponse{...}, err: two stores.
TaskWriteResponse(r) ==
    /\ ~crashed /\ tasks[r].pc = "locked"
    /\ response' = FinalizeBlockResponseOf(tasks[r].out)
    /\ tasks' = SetTask(r, "pc", "wroteResponse")
    /\ UNCHANGED <<isNil, abortRate, mtx, stopCh, request, err, cancelFunc,
                   initialized, chans, cancelled, pc, tmp, ret, scen, crashed>>

TaskWriteErr(r) ==
    /\ ~crashed /\ tasks[r].pc = "wroteResponse"
    /\ err' = tasks[r].out.err
    /\ tasks' = SetTask(r, "pc", "wroteErr")
    /\ UNCHANGED <<isNil, abortRate, mtx, stopCh, request, response,
                   cancelFunc, initialized, chans, cancelled, pc, tmp, ret, scen, crashed>>

\* close(oe.stopCh): the channel oe.stopCh names now; closing a closed
\* channel panics.
TaskClose(r) ==
    /\ ~crashed /\ tasks[r].pc = "wroteErr"
    /\ IF chans[stopCh] = "closed"
         THEN Panics
         ELSE /\ chans' = [chans EXCEPT ![stopCh] = "closed"]
              /\ tasks' = SetTask(r, "pc", "closed")
              /\ UNCHANGED <<isNil, abortRate, mtx, stopCh, request, response,
                             err, cancelFunc, initialized, cancelled, pc, tmp, ret, scen, crashed>>

\* oe.mtx.Unlock(), and the goroutine ends.
TaskUnlock(r) ==
    /\ ~crashed /\ tasks[r].pc = "closed"
    /\ mtx' = 0
    /\ tasks' = SetTask(r, "pc", "done")
    /\ UNCHANGED <<isNil, abortRate, stopCh, request, response, err,
                   cancelFunc, initialized, chans, cancelled, pc, tmp, ret, scen, crashed>>

-----------------------------------------------------------------------------

Next ==
    \/ Reset /\ UNCHANGED outsideScheduler
    \/ Initialized /\ UNCHANGED outsideScheduler
    \/ \E p \in ProposalIds : Execute(p) /\ UNCHANGED outsideScheduler
    \/ \E h \in Hashes : AbortIfNeeded(h) /\ UNCHANGED outsideScheduler
    \/ AbortCall /\ UNCHANGED outsideScheduler
    \/ AbortReturn /\ UNCHANGED outsideScheduler
    \/ WaitResultCall /\ UNCHANGED outsideScheduler
    \/ WaitResultRecv /\ UNCHANGED outsideScheduler
    \/ WaitResultReturn /\ UNCHANGED outsideScheduler
    \/ \E r \in Runs : TaskStart(r) /\ UNCHANGED outsideScheduler
    \/ \E r \in Runs : FinalizeObservesCancel(r) /\ UNCHANGED outsideScheduler
    \/ \E r \in Runs : FinalizeReturns(r) /\ UNCHANGED outsideScheduler
    \/ \E r \in Runs : TaskLock(r) /\ UNCHANGED outsideScheduler
    \/ \E r \in Runs : TaskWriteResponse(r) /\ UNCHANGED outsideScheduler
    \/ \E r \in Runs : TaskWriteErr(r) /\ UNCHANGED outsideScheduler
    \/ \E r \in Runs : TaskClose(r) /\ UNCHANGED outsideScheduler
    \/ \E r \in Runs : TaskUnlock(r) /\ UNCHANGED outsideScheduler

Spec == Init /\ [][Next]_vars

\* A step of the goroutine of run r.
TaskStep(r) ==
    /\ r \in Runs
    /\ \/ TaskStart(r)
       \/ FinalizeObservesCancel(r)
       \/ FinalizeReturns(r)
       \/ TaskLock(r)
       \/ TaskWriteResponse(r)
       \/ TaskWriteErr(r)
       \/ TaskClose(r)
       \/ TaskUnlock(r)

\* The runtime schedules every goroutine that can run: the goroutine of each
\* run takes its next step when it stays possible (finalize returns, the
\* mutex is acquired when free), and the caller blocked in Abort or
\* WaitResult goes on once its receive can return.
FairSpec ==
    /\ Spec
    /\ \A r \in 1..MaxRuns : WF_vars(TaskStep(r))
    /\ WF_vars(AbortReturn)
    /\ WF_vars(WaitResultRecv)
    /\ WF_vars(WaitResultReturn)

-----------------------------------------------------------------------------
(* Properties *)

\* The goroutine of run r has closed a completion channel: it writes nothing
\* more.
Recorded(r) == tasks[r].pc \in {"closed", "done"}

\* The pair WaitResult returns when it returns what finalize returned as out.
PairOf(out) == <<FinalizeBlockResponseOf(out), out.err>>

\* C1: when Abort has cancelled a run and returned, the goroutine of that run
\* (the run whose context oe.cancelFunc cancels) has recorded its result and
\* closed the completion channel, so nothing of that run happens afterwards.
C1_AbortWaitsForItsRun ==
    (ret.op = "Abort" /\ ret.b /\ pc = "idle") => Recorded(cancelFunc)

\* C2, as stated: in the scenario Execute(reqA), then AbortIfNeeded(hashB) with
\* hashB # hash(reqA) before the run has completed, then WaitResult, the
\* AbortIfNeeded returns true and the WaitResult returns the cancellation
\* error and no state changes.
C2_WaitResultReturnsCancellation ==
    /\ scen = 2 => (ret.op = "AbortIfNeeded" /\ ret.b)
    /\ scen = 3 => (ret.op = "WaitResult" /\ ret.err = "canceled"
                    /\ ret.resp.StateChanges = 0)

\* C2, amended: in that scenario, started when no other run is in flight,
\* AbortIfNeeded returns true having cancelled the context of the run, and
\* WaitResult returns exactly what the finalize call of that run returned:
\* the context's error, or its complete result when it returned without
\* having seen the cancellation.
C2_WaitResultReturnsFinalizeResult ==
    /\ scen = 2 => (ret.op = "AbortIfNeeded" /\ ret.b /\ cancelled[stopCh])
    /\ scen = 3 => /\ ret.op = "WaitResult"
                   /\ Recorded(stopCh)
                   /\ <<ret.resp, ret.err>> = PairOf(tasks[stopCh].out)
                   /\ tasks[stopCh].out \in {CanceledOut, OkOut(stopCh)}

\* C2, witness: the scenario has been run through and WaitResult has returned
\* the complete result of the cancelled run, with a nil error.
C2_Witness ==
    /\ scen = 3 /\ cancelled[stopCh]
    /\ ret.err = "nil" /\ ret.resp.StateChanges = stopCh

\* C3: while the completion channel of the last Execute is open, Reset has
\* not cleared the fields: the request is held and initialized is set.
C3_NoResetWhileRunning ==
    (stopCh # 0 /\ chans[stopCh] = "open") => (initialized /\ ~request.isNil)

\* C4: at most one goroutine started by Execute is in flight.
C4_AtMostOneTask ==
    Cardinality({r \in Runs : InFlight(r)}) <= 1

\* C5: a WaitResult that has returned for the current run (Execute called and
\* no Reset since) returned after the goroutine of that run had closed the
\* channel, and returned what the finalize call of that run returned.
C5_WaitResultReturnsItsRun ==
    (ret.op = "WaitResult" /\ pc = "idle" /\ initialized)
        => /\ Recorded(stopCh)
           /\ <<ret.resp, ret.err>> = PairOf(tasks[stopCh].out)

\* C6: a step of AbortIfNeeded(h) on a scheduler that holds a request returns
\* true when h differs from the hash of the held request, false when they are
\* equal and the abort rate is 0, true when the abort rate is 100 or more; if
\* it returns true the context of the last Execute is cancelled, and if it
\* returns false no context has changed.
C6_AbortIfNeededDecision ==
    [][\A h \in Hashes :
         (AbortIfNeeded(h) /\ ~isNil /\ ~crashed') =>
            /\ ret'.op = "AbortIfNeeded"
            /\ request.Hash # h => ret'.b
            /\ (request.Hash = h /\ abortRate = 0) => ~ret'.b
            /\ abortRate >= RandMod => ret'.b
            /\ ret'.b => cancelled'[cancelFunc]
            /\ ~ret'.b => cancelled' = cancelled]_vars

\* C6, witness: with abort rate 0, AbortIfNeeded has returned true and the
\* context of a run whose finalize call is in progress is cancelled.
C6_Witness ==
    /\ abortRate = 0 /\ ret.op = "AbortIfNeeded" /\ ret.b
    /\ cancelFunc # 0 /\ tasks[cancelFunc].pc = "finalize"
    /\ cancelled[cancelFunc]

\* Nothing is running as far as Abort can tell: no scheduler, no run started,
\* or the completion channel already closed.
AbortIdle == isNil \/ cancelFunc = 0 \/ ChanClosed(stopCh)

\* C7: an Abort called when nothing is running does not panic and does not
\* block; an Abort that had to wait leaves nothing running; and an Abort
\* that follows an Abort finds nothing running and changes no field, channel,
\* context or goroutine.
C7_AbortIdempotent ==
    [][/\ (AbortCall /\ AbortIdle) =>
             /\ ~crashed'
             /\ pc' = "idle" \/ (pc' = "abort_recv" /\ ChanClosed(stopCh'))
       /\ AbortReturn => AbortIdle'
       /\ (AbortCall /\ ret.op = "Abort") =>
             /\ AbortIdle
             /\ UNCHANGED <<mtx, stopCh, request, response, err, cancelFunc,
                            initialized, chans, cancelled, tasks>>]_vars

\* C7, witness: an Abort has waited for a run and returned, Abort has been
\* called again and is at its receive, which does not block.
C7_Witness ==
    /\ pc = "abort_recv" /\ ret.op = "Abort" /\ ret.b
    /\ ChanClosed(stopCh)

\* C8: the finalize call of a run is given the request built from the
\* proposal of the Execute that started the run.
C8_FinalizeGetsItsRequest ==
    \A r \in Runs :
       tasks[r].pc = "finalize" =>
          tasks[r].req = FinalizeBlockRequestOf(Proposal(tasks[r].proposal))

\* C9: the mutex is held by a goroutine only after its finalize call has
\* returned, while it records the result: whenever a caller of Reset,
\* Initialized or AbortIfNeeded finds the mutex taken, the holder is past its
\* finalize call.
C9_LockNotHeldDuringFinalize ==
    mtx # 0 => tasks[mtx].pc \in {"locked", "wroteResponse", "wroteErr", "closed"}

\* C9, witness: AbortIfNeeded has returned true while the finalize call of
\* the run it cancelled is still in progress.
C9_Witness ==
    /\ ret.op = "AbortIfNeeded" /\ ret.b /\ mtx = 0
    /\ \E r \in Runs : tasks[r].pc = "finalize" /\ cancelled[r]

\* C10, as stated: once Reset has returned the scheduler is as created, the
\* cancellation handle and the completion channel included.
C10_ResetClearsEverything ==
    (ret.op = "Reset" /\ pc = "idle") =>
        /\ request.isNil /\ ~initialized
        /\ cancelFunc = 0 /\ stopCh = 0

\* C10, amended: Reset clears the request, the response, the error and the
\* initialized flag, and leaves the cancellation handle, the completion
\* channel, the contexts and the goroutines as they are.
C10_ResetClearsFourFields ==
    [][(Reset /\ ~crashed') =>
          /\ request'.isNil /\ response'.isNil /\ err' = "nil"
          /\ ~initialized'
          /\ UNCHANGED <<cancelFunc, stopCh, chans, cancelled, tasks>>]_vars

\* C10, witness: Reset has returned on a scheduler that has run, and the
\* cancellation handle and the channel of that run are still there.
C10_Witness ==
    /\ ret.op = "Reset" /\ request.isNil /\ ~initialized
    /\ cancelFunc # 0 /\ stopCh # 0

\* C11: Initialized returns false on a nil scheduler and the initialized flag
\* otherwise; the flag is unset on a new scheduler, set by Execute and by
\* nothing else, unset by Reset and by nothing else; and whenever the flag is
\* set the scheduler holds a request.
C11_InitializedSinceExecute ==
    /\ [](/\ (isNil \/ ret.op = "none") => ~initialized
          /\ (ret.op = "Execute" /\ pc = "idle") => initialized
          /\ (ret.op = "Reset" /\ pc = "idle") => ~initialized
          /\ initialized <=> ~request.isNil)
    /\ [][/\ Initialized =>
               /\ ret'.op = "Initialized"
               /\ ret'.b = (~isNil /\ initialized)
               /\ ret'.b => ~request.isNil
          /\ (initialized' # initialized) =>
               \/ initialized' /\ ret'.op = "Execute" /\ Len(tasks') > Len(tasks)
               \/ ~initialized' /\ ret'.op = "Reset"]_vars

\* C11, witness: Initialized has returned true while the run of a second
\* Execute is in flight.
C11_Witness ==
    /\ ret.op = "Initialized" /\ ret.b
    /\ Len(tasks) = 2 /\ InFlight(2) /\ ~request.isNil

\* C12: with finalize returning and the goroutines scheduled fairly, an Abort
\* that waits at its receive returns, and a WaitResult called on a scheduler
\* on which Execute has been called returns.
C12_AbortAndWaitResultReturn ==
    /\ (pc = "abort_recv") ~> (pc = "idle")
    /\ (pc = "wait_recv" /\ stopCh # 0) ~> (pc = "idle")

\* C28: the goroutine writes response and err, holding the mutex, before it
\* closes the completion channel: whenever the channel of a run is closed and
\* neither Reset nor Execute has been called since (the scheduler is
\* initialized and oe.stopCh is still that channel), response is non-nil and
\* response and err are what the finalize call of that run returned.
C28_ClosedSignalHoldsResult ==
    /\ \A r \in Runs :
          tasks[r].pc \in {"locked", "wroteResponse", "wroteErr", "closed"}
             => mtx = r
    /\ \A r \in Runs :
          (ChanClosed(r) /\ stopCh = r /\ initialized) =>
             /\ ~response.isNil
             /\ tasks[r].pc \in {"returned", "locked", "wroteResponse",
                                 "wroteErr", "closed", "done"}
             /\ <<response, err>> = PairOf(tasks[r].out)

\* C29: every channel made by an Execute is closed once, by the goroutine
\* that Execute started: the close of a goroutine never panics and closes
\* the channel of its own run, and a goroutine that has finished has left
\* the channel of its run closed.
C29_ChannelClosedOnceByItsTask ==
    /\ [](\A r \in Runs : Recorded(r) => ChanClosed(r))
    /\ [][\A r \in Runs :
            TaskClose(r) => /\ ~crashed'
                            /\ stopCh = r
                            /\ chans[r] = "open" /\ chans'[r] = "closed"]_vars

\* C31: AbortIfNeeded only signals cancellation: a call that returns leaves
\* request, response, err, initialized, oe.stopCh, the channels and the
\* goroutines as they are and has not waited (the caller is back at once);
\* when it has returned true the scheduler is still initialized; and a
\* completion channel is closed by a step of a goroutine only.
C31_AbortIfNeededOnlySignals ==
    [][/\ \A h \in Hashes :
            (AbortIfNeeded(h) /\ ~crashed') =>
               /\ UNCHANGED <<request, response, err, initialized, stopCh,
                              chans, tasks, mtx>>
               /\ pc' = "idle" /\ ret'.op = "AbortIfNeeded"
               /\ ret'.b => initialized'
       /\ (chans' # chans /\ Len(chans') = Len(chans)) =>
             \E r \in Runs : TaskClose(r)]_vars

\* C31, witness: AbortIfNeeded has returned true, the scheduler is
\* initialized and the finalize call of the cancelled run is still in
\* progress, its channel open.
C31_Witness ==
    /\ ret.op = "AbortIfNeeded" /\ ret.b /\ pc = "idle" /\ initialized
    /\ stopCh # 0 /\ chans[stopCh] = "open"
    /\ Len(tasks) = 1 /\ tasks[1].pc = "finalize" /\ cancelled[1]

\* C32: a WaitResult called on a scheduler on which Execute has never been
\* called (oe.stopCh is nil) does not return: the caller stays at the
\* receive whatever happens, and WaitResult has returned only on a scheduler
\* on which Execute has been called.
C32_WaitResultBlocksBeforeExecute ==
    /\ []((ret.op = "WaitResult" \/ pc = "wait_err") => stopCh # 0)
    /\ [][(pc = "wait_recv" /\ stopCh = 0) =>
             (pc' = "wait_recv" /\ stopCh' = 0 /\ ret' = ret)]_vars

\* C32, witness: WaitResult has been called on a non-nil scheduler that has
\* never executed and is at its receive, which nothing can complete.
C32_Witness ==
    /\ pc = "wait_recv" /\ ~isNil /\ stopCh = 0 /\ tasks = <<>>
    /\ ~ENABLED WaitResultRecv

\* C30: AbortIfNeeded never panics: on a nil scheduler it returns false, and
\* on a scheduler that holds no request it returns and cancels no context.
C30_AbortIfNeededNeverCrashes ==
    [][\A h \in Hashes :
         AbortIfNeeded(h) =>
            /\ ~crashed'
            /\ ret'.op = "AbortIfNeeded"
            /\ isNil => ~ret'.b
            /\ request.isNil => cancelled' = cancelled]_vars

-----------------------------------------------------------------------------
(* The hypervisor of RFC 003: error codes, accounts, state tokens, volatility *)
(* and authorization.                                                        *)

\* The depth the call stack may reach, the gas a behaviour may consume.
MaxDepth == 3
MaxGas == 200

\* The depth the call stack may reach when every request is tried.
MaxEnforcerDepth == 2

\* Error codes: zero for success, the system-level codes, and the greatest
\* code reserved for the system level.
Success == 0
OutOfGas == 1
FatalExecutionError == 2
AccountNotFound == 3
MessageHandlerNotFound == 4
InvalidStateAccess == 5
UnauthorizedCaller == 6
InvalidHandler == 7
UnknownHandlerError == 8
MaxSystemCode == 255

\* A code above 255 is an error returned by a handler itself.
HandlerError == MaxSystemCode + 1

\* The unwinding errors as they would be if a fatal execution error were
\* returned like any other error.
IsUnwindingOnlyOutOfGas(code) == code = OutOfGas

\* Error codes 1 and 2 are the unwinding errors.
IsUnwinding(code) == code \in {OutOfGas, FatalExecutionError}

\* The accounts that exist once the hypervisor is set up, an address of no
\* account, and the empty address.
Accounts == {1, 2}
Addresses == Accounts \cup {3}
EmptyAddress == 0

\* The metadata of the account handler (both accounts are instances of it):
\* the message names it defines handlers for, each with its volatility.
HandlerMetadata ==
    ("send" :> "volatile") @@ ("balance" :> "readonly") @@ ("hash" :> "pure")

\* The message names a request may carry: "burn" has no handler.
MessageNames == DOMAIN HandlerMetadata \cup {"burn"}

\* The first byte of a state token: its high bit is the volatility of the
\* token, the other bits tell tokens apart.
HighBit == 128
IsVolatileToken(token) == (token \div HighBit) % 2 = 1
StateToken(volatile, id) == (IF volatile THEN HighBit ELSE 0) + id

\* The volatility rules as they would be without the rule that volatile
\* handlers can only be called with volatile state tokens.
VolatilityRulesWithoutTokenRule(source, target, token, isNew) ==
    /\ source = "readonly" =>
          \/ target \in {"readonly", "pure"}
          \/ isNew /\ IsVolatileToken(token)
    /\ source = "pure" => target = "pure"

\* The volatility rules for a call of a handler of volatility target with
\* the state token of the request, made by the external caller or by a
\* handler of volatility source; isNew says the caller acquired the token
\* for this call rather than passing on the one it received.
VolatilityRules(source, target, token, isNew) ==
    /\ target = "volatile" => IsVolatileToken(token)
    /\ source = "readonly" =>
          \/ target \in {"readonly", "pure"}
          \/ isNew /\ IsVolatileToken(token)
    /\ source = "pure" => target = "pure"

\* The caller address as it would be passed if it were passed to every handler.
CallerPassedToAll(volatility, caller) == caller

\* The caller address passed to a handler: always to a volatile one, when
\* available to a readonly one, never to a pure one.
CallerPassed(volatility, caller) ==
    IF volatility = "pure" THEN EmptyAddress ELSE caller

\* Whether the real caller may act as the claimed caller: by default only as
\* itself, else when the authorization middleware says so.
Authorized(real, claimed) ==
    claimed = real \/ <<real, claimed>> \in middleware

\* The configurations of the authorization middleware: none, or one that lets
\* account 1 act as account 2.
Middlewares == {{}, {<<1, 2>>}}

-----------------------------------------------------------------------------
(* The state handler, as the hypervisor drives it. *)

BeginTxCall(token, account) == [op |-> "begin_tx", token |-> token, account |-> account]
CommitTxCall(token) == [op |-> "commit_tx", token |-> token, account |-> EmptyAddress]
RollbackTxCall(token) == [op |-> "rollback_tx", token |-> token, account |-> EmptyAddress]
DiscardCleanupCall(token) == [op |-> "discard_cleanup", token |-> token, account |-> EmptyAddress]

\* The current nested transaction of a token as it would be if it were the
\* outermost one.
CurrentTxOutermost(T, token) ==
    LET S == {i \in 1..Len(T) : T[i].token = token} IN
      IF S = {} THEN 0 ELSE CHOOSE i \in S : \A j \in S : i <= j

\* The position in T of the current (innermost) nested transaction of the
\* token, 0 if it has none.
CurrentTx(T, token) ==
    LET S == {i \in 1..Len(T) : T[i].token = token} IN
      IF S = {} THEN 0 ELSE CHOOSE i \in S : \A j \in S : j <= i

RemoveAt(T, i) == SubSeq(T, 1, i - 1) \o SubSeq(T, i + 1, Len(T))

\* How deep the open transactions of the token are nested in T.
Nesting(T, token) == Cardinality({i \in 1..Len(T) : T[i].token = token})

\* The open nested transactions T after one call: begin_tx creates a nested
\* transaction within the token for the account, commit_tx and rollback_tx
\* end the current nested transaction of the token, discard_cleanup discards
\* the token with everything open within it.
StateHandler(T, call) ==
    CASE call.op = "begin_tx" ->
           Append(T, [token |-> call.token, account |-> call.account,
                      level |-> Nesting(T, call.token) + 1])
      [] call.op \in {"commit_tx", "rollback_tx"} ->
           IF CurrentTx(T, call.token) = 0 THEN T
           ELSE RemoveAt(T, CurrentTx(T, call.token))
      [] call.op = "discard_cleanup" ->
           SelectSeq(T, LAMBDA x : x.token # call.token)

RECURSIVE StateHandlerAll(_, _)
StateHandlerAll(T, cs) ==
    IF cs = <<>> THEN T
    ELSE StateHandlerAll(StateHandler(T, Head(cs)), Tail(cs))

-----------------------------------------------------------------------------
(* The router. *)

\* The gas limits a request may carry (zero: none declared) and the amounts
\* a handler may consume in one go.
GasLimits == {0, 50, 100}
GasAmounts == {50, 150}

\* The message requests that can be made from depth d of the call stack
\* (0: by the external caller) by a caller that received the state token
\* own: to any address, under any caller address, with any message name,
\* with the token received or a new readonly or volatile one, and with the
\* context token received.  These declare no gas limit.
Requests(d, own) ==
    [self : Addresses,
     caller : Accounts \cup {EmptyAddress},
     name : MessageNames,
     token : own \cup {StateToken(FALSE, d + 1), StateToken(TRUE, d + 1)},
     ctx : {d},
     gas : {0}]

\* The requests the router does not reject, with or without a gas limit:
\* account 1 calling itself under its own address, a volatile or a readonly
\* handler, with the token received or a new volatile one.
MeteredRequests(d, own) ==
    [self : {1},
     caller : {1},
     name : {"send", "balance"},
     token : own \cup {StateToken(TRUE, d + 1)},
     ctx : {d},
     gas : GasLimits]

\* The volatility of the caller of a request made from depth d.
SourceOf(d) == IF d = 0 THEN "external" ELSE callStack[d].volatility

\* The real caller as it would be if the router took the caller address of
\* the request for it.
RealCallerAsClaimed(req) == req.caller

\* The real caller of a request: the account of the frame that was given the
\* context token the request carries; the external caller is taken at its word.
RealCaller(req) == IF req.ctx = 0 THEN req.caller ELSE callStack[req.ctx].self

\* Every token taken for a new one.
IsNewTokenAlways(req, d) == TRUE

\* Whether the token of a request made from depth d is a new one, not the
\* one the caller received.  The token of the external call is not new.
IsNewToken(req, d) == d > 0 /\ req.token # callStack[d].token

\* The error code with which the router rejects a request made from depth d,
\* zero if it does not.
DispatchCode(req, d) ==
    IF req.self \notin accounts THEN AccountNotFound
    ELSE IF req.name \notin DOMAIN HandlerMetadata THEN MessageHandlerNotFound
    ELSE IF ~VolatilityRules(SourceOf(d), HandlerMetadata[req.name], req.token,
                             IsNewToken(req, d)) THEN InvalidStateAccess
    ELSE IF ~Authorized(RealCaller(req), req.caller) THEN UnauthorizedCaller
    ELSE Success

\* The gas limit in effect as it would be if the limit a request declares
\* replaced the limit its caller runs under.
LimitOfDeclared(req, d) ==
    IF req.gas = 0
      THEN IF d = 0 THEN 0 ELSE callStack[d].gasLimit
      ELSE gasConsumed + req.gas

\* The gas limit in effect for a call made from depth d, as the greatest
\* value gasConsumed may reach (zero: unmetered): the limit the request
\* declares counts from the gas consumed so far, and cannot loosen the limit
\* the caller runs under.
LimitOf(req, d) ==
    LET inherited == IF d = 0 THEN 0 ELSE callStack[d].gasLimit
        declared == IF req.gas = 0 THEN 0 ELSE gasConsumed + req.gas
    IN  IF declared = 0 THEN inherited
        ELSE IF inherited = 0 \/ declared < inherited THEN declared
        ELSE inherited

\* The depth of the caller that set the gas limit in effect for a call made
\* from depth d (0: the external caller).
SetterOf(req, d) ==
    IF d = 0 THEN 0
    ELSE IF LimitOf(req, d) = callStack[d].gasLimit THEN callStack[d].setter
    ELSE d

FrameOf(req, d) ==
    [self |-> req.self,
     volatility |-> HandlerMetadata[req.name],
     token |-> req.token,
     isNew |-> IsNewToken(req, d),
     gasLimit |-> LimitOf(req, d),
     setter |-> SetterOf(req, d)]

\* What the router delivers: a request to the handler of the frame at depth
\* to, with the caller address passed, or an error code to the caller at
\* depth to (0: the external caller).
RequestDelivery(to, caller) == [kind |-> "request", to |-> to, code |-> Success, caller |-> caller]
ResultDelivery(to, code) == [kind |-> "result", to |-> to, code |-> code, caller |-> EmptyAddress]

\* The state of the external invocation once code has been delivered to
\* depth to.
StateAfter(to, code) ==
    IF to > 0 THEN "Dispatching"
    ELSE IF code = Success THEN "Committed"
    ELSE IF IsUnwinding(code) THEN "Unwound"
    ELSE "RolledBack"

\* The router routes a request made from depth d: a request it rejects gets
\* its error code back and nothing else happens; else begin_tx is called with
\* the state token of the request and the account, and then the handler is
\* called with the caller address its volatility lets it have.
Dispatch(req, d) ==
    LET code == DispatchCode(req, d) IN
      IF code # Success
        THEN /\ calls' = <<>>
             /\ delivery' = ResultDelivery(d, code)
             /\ hvState' = StateAfter(d, code)
             /\ UNCHANGED <<callStack, txs>>
        ELSE /\ calls' = <<BeginTxCall(req.token, req.self)>>
             /\ txs' = StateHandlerAll(txs, calls')
             /\ callStack' = Append(callStack, FrameOf(req, d))
             /\ delivery' = RequestDelivery(d + 1,
                               CallerPassed(HandlerMetadata[req.name], req.caller))
             /\ hvState' = "Dispatching"

\* A call external to the hypervisor.
ExternalInvoke(req) ==
    /\ hvState # "Dispatching"
    /\ gasConsumed' = 0
    /\ Dispatch(req, 0)
    /\ UNCHANGED <<middleware, registry>>
    /\ UNCHANGED outsideRouter

\* The handler that is executing sends a message request.
NestedInvoke(req) ==
    /\ hvState = "Dispatching"
    /\ Dispatch(req, Len(callStack))
    /\ UNCHANGED <<gasConsumed, middleware, registry>>
    /\ UNCHANGED outsideRouter

\* The state handler calls of unwinding stack down to depth to, the frame on
\* top first: discard_cleanup for the token a frame introduced, nothing more
\* for a frame that was passed a token introduced by an unwound frame, and
\* rollback_tx for a frame that was passed a token in use at or before the
\* unwinding target.
RECURSIVE UnwindCalls(_, _)
UnwindCalls(stack, to) ==
    IF Len(stack) <= to THEN <<>>
    ELSE LET d == Len(stack)
             f == stack[d]
             rest == UnwindCalls(SubSeq(stack, 1, d - 1), to)
         IN  IF f.isNew THEN <<DiscardCleanupCall(f.token)>> \o rest
             ELSE IF \E j \in (to + 1)..(d - 1) :
                        stack[j].isNew /\ stack[j].token = f.token
               THEN rest
             ELSE <<RollbackTxCall(f.token)>> \o rest

\* An unwinding error: execution halts, the call stack is unwound to depth
\* to and the error is returned there.
Unwind(code, to) ==
    /\ calls' = UnwindCalls(callStack, to)
    /\ txs' = StateHandlerAll(txs, calls')
    /\ callStack' = SubSeq(callStack, 1, to)
    /\ delivery' = ResultDelivery(to, code)
    /\ hvState' = StateAfter(to, code)

\* The unwinding target as it would be if every unwinding error went up to
\* the external caller.
UnwindTargetAlwaysExternal(code, stack, gas) == 0

\* The end of a transaction as it would be if it were always a commit.
EndTxCallAlwaysCommit(code, token) == CommitTxCall(token)

\* The frames of stack that run under a gas limit that gas exceeds.  A nested
\* call never runs under a looser limit than its caller, so these are the
\* frames from some depth up.
Exceeded(stack, gas) ==
    {i \in 1..Len(stack) : stack[i].gasLimit > 0 /\ gas > stack[i].gasLimit}

\* The unwinding target: for out of gas the caller that set the gas limit,
\* which is the last handler executing without an exceeded limit (0: the
\* external caller); for a fatal execution error the external caller.
UnwindTarget(code, stack, gas) ==
    IF code = OutOfGas /\ Exceeded(stack, gas) # {}
      THEN LET i == CHOOSE i \in Exceeded(stack, gas) :
                       \A j \in Exceeded(stack, gas) : i <= j
           IN  stack[i].setter
      ELSE 0

\* The state handler call that ends the transaction of a method that
\* returned code: commit_tx on success, rollback_tx on an error.
EndTxCall(code, token) ==
    IF code = Success THEN CommitTxCall(token) ELSE RollbackTxCall(token)

\* The code of a handler as it would be if it were returned as it is.
TranslatedVerbatim(code) == code

\* A system-level code returned by a handler implementation is translated to
\* invalid handler.
Translated(code) ==
    IF code \in 1..MaxSystemCode THEN InvalidHandler ELSE code

\* The method of the frame on top returns code, to the router: an unwinding
\* error unwinds; else commit_tx on success and rollback_tx on an error, with
\* the state token of the frame, and the code goes to the caller.
MethodReturned(code) ==
    LET d == Len(callStack)
        f == callStack[d]
    IN  IF IsUnwinding(code)
          THEN Unwind(code, UnwindTarget(code, callStack, gasConsumed'))
          ELSE /\ calls' = <<EndTxCall(code, f.token)>>
               /\ txs' = StateHandlerAll(txs, calls')
               /\ callStack' = SubSeq(callStack, 1, d - 1)
               /\ delivery' = ResultDelivery(d - 1, code)
               /\ hvState' = StateAfter(d - 1, code)

\* The codes a handler implementation may return (success, an error of its
\* own, system-level codes up to the greatest one) and the codes a virtual
\* machine may return for the handler it runs.
HandlerCodes ==
    {Success, HandlerError, FatalExecutionError, AccountNotFound, MaxSystemCode}
MachineCodes == {FatalExecutionError, UnknownHandlerError}

\* The handler on top returns.
HandlerReturns(code) ==
    /\ hvState = "Dispatching"
    /\ UNCHANGED <<gasConsumed, middleware, registry>>
    /\ MethodReturned(Translated(code))
    /\ UNCHANGED outsideRouter

\* The virtual machine running the handler on top fails.
MachineFails(code) ==
    /\ hvState = "Dispatching"
    /\ UNCHANGED <<gasConsumed, middleware, registry>>
    /\ MethodReturned(code)
    /\ UNCHANGED outsideRouter

\* The handler on top consumes gas: once the gas limit in effect is exceeded
\* execution halts with out of gas.
ConsumeGas(g) ==
    /\ hvState = "Dispatching"
    /\ gasConsumed + g <= MaxGas
    /\ gasConsumed' = gasConsumed + g
    /\ IF Exceeded(callStack, gasConsumed') # {}
         THEN MethodReturned(OutOfGas)
         ELSE /\ calls' = <<>>
              /\ delivery' = NoDelivery
              /\ UNCHANGED <<callStack, txs, hvState>>
    /\ UNCHANGED <<middleware, registry>>
    /\ UNCHANGED outsideRouter

\* The hypervisor set up with its accounts and one of the middlewares.
HvInit ==
    /\ OutsideRouterNew
    /\ callStack = <<>> /\ txs = <<>> /\ gasConsumed = 0
    /\ middleware \in Middlewares
    /\ hvState = "Idle" /\ calls = <<>> /\ delivery = NoDelivery
    /\ accounts = Accounts /\ created = Cardinality(Accounts)
    /\ loadState = "Ready" /\ routes = {}

\* The token the handler on top received.
OwnToken == {callStack[Len(callStack)].token}

HvNext ==
    \/ \E req \in MeteredRequests(0, {}) : ExternalInvoke(req)
    \/ /\ callStack # <<>> /\ Len(callStack) < MaxDepth
       /\ \E req \in MeteredRequests(Len(callStack), OwnToken) : NestedInvoke(req)
    \/ \E code \in HandlerCodes : HandlerReturns(code)
    \/ \E code \in MachineCodes : MachineFails(code)
    \/ \E g \in GasAmounts : ConsumeGas(g)

HvSpec == HvInit /\ [][HvNext]_hvars

\* The router under every request, without gas.
EnforcerNext ==
    \/ \E req \in Requests(0, {}) : ExternalInvoke(req)
    \/ /\ callStack # <<>> /\ Len(callStack) < MaxEnforcerDepth
       /\ \E req \in Requests(Len(callStack), OwnToken) : NestedInvoke(req)
    \/ \E code \in HandlerCodes : HandlerReturns(code)
    \/ \E code \in MachineCodes : MachineFails(code)

EnforcerSpec == HvInit /\ [][EnforcerNext]_hvars

-----------------------------------------------------------------------------
(* Properties of the router *)

\* The frame on top of the call stack.
Top == callStack[Len(callStack)]

\* The call stack without the frame on top.
Popped == SubSeq(callStack, 1, Len(callStack) - 1)

\* The state handler has one open nested transaction for each frame, in the
\* order of the frames, begun with the token and the account of the frame.
TxsMatchFrames ==
    /\ Len(txs) = Len(callStack)
    /\ \A i \in 1..Len(callStack) :
          /\ txs[i].token = callStack[i].token
          /\ txs[i].account = callStack[i].self

\* C13: a handler is called only in a step in which begin_tx has been called
\* with the token and the account of its frame, so that every frame has its
\* transaction open while its handler runs; commit_tx is called only when the
\* handler of the frame on top has returned 0, with the token of that frame,
\* and ends the transaction of that frame; and the call stack changes only by
\* a push of one frame or by the removal of frames from the top, one frame
\* when a method returns a code that is not an unwinding error.
C13_DispatchOrder ==
    /\ []TxsMatchFrames
    /\ [][/\ (delivery'.kind = "request" \/ Len(callStack') > Len(callStack)) =>
               /\ callStack' = Append(callStack, callStack'[Len(callStack')])
               /\ calls' = <<BeginTxCall(Top'.token, Top'.self)>>
               /\ delivery'.kind = "request" /\ delivery'.to = Len(callStack')
          /\ (\E i \in 1..Len(calls') : calls'[i].op = "commit_tx") =>
               /\ HandlerReturns(Success)
               /\ calls' = <<CommitTxCall(Top.token)>>
               /\ callStack' = Popped
               /\ txs' = SubSeq(txs, 1, Len(txs) - 1)
               /\ delivery' = ResultDelivery(Len(callStack) - 1, Success)
          /\ \/ callStack' = callStack
             \/ Len(callStack') = Len(callStack) + 1
                  /\ SubSeq(callStack', 1, Len(callStack)) = callStack
             \/ Len(callStack') < Len(callStack)
                  /\ callStack' = SubSeq(callStack, 1, Len(callStack'))
                  /\ (~IsUnwinding(delivery'.code) => callStack' = Popped)]_hvars

\* C13, witness: a nested call made with the token of its caller has returned
\* 0 and been committed, and the transaction of the caller is still open.
C13_Witness ==
    /\ Len(callStack) = 1 /\ hvState = "Dispatching"
    /\ delivery = ResultDelivery(1, Success)
    /\ calls = <<CommitTxCall(callStack[1].token)>>
    /\ Len(txs) = 1

\* An error code that is not an unwinding error.
Recoverable(code) == code # Success /\ ~IsUnwinding(code)

\* C14: when the method of a nested call returns a recoverable error,
\* rollback_tx is called with the token of its frame and nothing else is, the
\* transaction ended is that of this innermost frame, the frame is removed and
\* the code is returned to the caller; the caller then goes on executing, can
\* return 0, and is committed if it does.
C14_RecoverableError ==
    /\ []((delivery.kind = "result" /\ delivery.to >= 1 /\ Recoverable(delivery.code)) =>
            /\ hvState = "Dispatching" /\ Len(callStack) = delivery.to
            /\ TxsMatchFrames
            /\ ENABLED HandlerReturns(Success))
    /\ [][/\ \A code \in HandlerCodes \cup MachineCodes :
               (/\ HandlerReturns(code) \/ MachineFails(code)
                /\ Recoverable(delivery'.code)) =>
                  /\ calls' = <<RollbackTxCall(Top.token)>>
                  /\ txs' = SubSeq(txs, 1, Len(txs) - 1)
                  /\ callStack' = Popped
                  /\ delivery'.kind = "result"
                  /\ delivery'.to = Len(callStack) - 1
          /\ (/\ HandlerReturns(Success)
              /\ delivery.kind = "result" /\ Recoverable(delivery.code)) =>
                  /\ calls' = <<CommitTxCall(Top.token)>>
                  /\ delivery' = ResultDelivery(Len(callStack) - 1, Success)]_hvars

\* C14, witness: a call nested two deep, made with the token of its callers,
\* has returned an error of its own and been rolled back; its caller is
\* executing with its transaction open.
C14_Witness ==
    /\ Len(callStack) = 2 /\ hvState = "Dispatching"
    /\ callStack[1].token = callStack[2].token
    /\ delivery = ResultDelivery(2, HandlerError)
    /\ calls = <<RollbackTxCall(callStack[2].token)>>
    /\ Len(txs) = 2

\* The least member of a nonempty set of depths.
Lowest(S) == CHOOSE i \in S : \A j \in S : i <= j

\* C15: in the step in which gas consumption exceeds a gas limit in effect,
\* the frames running under an exceeded limit, which are the frames from the
\* limited call up, are removed; out of gas (1) is returned to the caller
\* below them, the one that set the limit, which goes on executing unless it
\* is the external caller; commit_tx is not called; and the transaction of
\* every frame removed, that of the limited call included, is ended by
\* rollback_tx or by discard_cleanup of its token, the transactions of the
\* frames that stay being left open.
C15_OutOfGasUnwinds ==
    [][\A g \in GasAmounts :
         (ConsumeGas(g) /\ Exceeded(callStack, gasConsumed') # {}) =>
            LET E == Exceeded(callStack, gasConsumed')
                limited == Lowest(E)
                to == limited - 1
            IN  /\ E = limited..Len(callStack)
                /\ callStack[limited].setter = to
                /\ callStack' = SubSeq(callStack, 1, to)
                /\ delivery' = ResultDelivery(to, OutOfGas)
                /\ hvState' = IF to > 0 THEN "Dispatching" ELSE "Unwound"
                /\ \A i \in 1..Len(calls') :
                      calls'[i].op \in {"rollback_tx", "discard_cleanup"}
                /\ \E i \in 1..Len(calls') :
                      calls'[i].token = callStack[limited].token
                /\ txs' = SubSeq(txs, 1, to)]_hvars

\* C15, witness: an unmetered handler called with limit 100, the call nested
\* another call, 150 was consumed; both frames have been removed and the
\* handler that set the limit, still executing, has been returned code 1.
C15_Witness ==
    /\ Len(callStack) = 1 /\ callStack[1].gasLimit = 0
    /\ hvState = "Dispatching"
    /\ gasConsumed = 150
    /\ delivery = ResultDelivery(1, OutOfGas)
    /\ Len(calls) = 2 /\ Len(txs) = 1

\* How many times discard_cleanup is called with the token in cs.
DiscardCount(cs, token) ==
    Cardinality({i \in 1..Len(cs) : cs[i] = DiscardCleanupCall(token)})

\* C16: in a step that unwinds the call stack, discard_cleanup is called once
\* with each state token that a removed frame was called with and that is
\* not the token its caller had received, and is called with no other token:
\* not with the token of the external call, and not with a token of a frame
\* that stays; and no transaction within a discarded token stays open.
C16_DiscardNewTokensOnce ==
    [][(Len(callStack') < Len(callStack) /\ IsUnwinding(delivery'.code)) =>
         LET to == Len(callStack')
             introduced ==
                 {callStack[i].token :
                     i \in {j \in (to + 1)..Len(callStack) :
                              j > 1 /\ callStack[j].token # callStack[j - 1].token}}
             used == {callStack[i].token : i \in 1..Len(callStack)}
                        \cup {calls'[i].token : i \in 1..Len(calls')}
         IN  /\ \A token \in used :
                   DiscardCount(calls', token) = IF token \in introduced THEN 1 ELSE 0
             /\ \A i \in 1..to : DiscardCount(calls', callStack[i].token) = 0
             /\ \A i \in 1..Len(txs') : txs'[i].token \notin introduced]_hvars

\* C16, witness: out of gas has removed two frames, the upper one called with
\* a new volatile token and the lower one with the token of the handler that
\* set the limit: the new token has been discarded, the other rolled back.
C16_Witness ==
    /\ Len(callStack) = 1 /\ hvState = "Dispatching"
    /\ delivery = ResultDelivery(1, OutOfGas)
    /\ calls = <<DiscardCleanupCall(StateToken(TRUE, 3)),
                 RollbackTxCall(callStack[1].token)>>

\* C17: when the virtual machine running the handler on top returns a fatal
\* execution error (2), whatever the depth, every frame is removed in that
\* step, commit_tx is not called, the transaction of every frame is ended,
\* and code 2 is returned to the external caller; no frame is left whose
\* handler could go on, return or send a request.
C17_FatalUnwindsToExternal ==
    /\ [](delivery.code = FatalExecutionError =>
            /\ delivery = ResultDelivery(0, FatalExecutionError)
            /\ hvState = "Unwound"
            /\ callStack = <<>> /\ txs = <<>>
            /\ ~ENABLED (\E code \in HandlerCodes : HandlerReturns(code))
            /\ ~ENABLED (\E g \in GasAmounts : ConsumeGas(g))
            /\ ~ENABLED (\E req \in MeteredRequests(0, {}) : NestedInvoke(req)))
    /\ [][MachineFails(FatalExecutionError) =>
            /\ callStack' = <<>> /\ txs' = <<>>
            /\ Len(calls') >= 1
            /\ \A i \in 1..Len(calls') :
                  calls'[i].op \in {"rollback_tx", "discard_cleanup"}
            /\ delivery' = ResultDelivery(0, FatalExecutionError)]_hvars

\* C17, witness: a fatal execution error three calls deep has been returned
\* to the external caller, the state handler having been called once for each
\* of the three frames.
C17_Witness ==
    /\ delivery = ResultDelivery(0, FatalExecutionError)
    /\ hvState = "Unwound" /\ callStack = <<>>
    /\ Len(calls) = 3

\* The requests that can be made in the current state: by the external caller
\* when no call is in progress, else by the handler on top.
RequestsNow ==
    Requests(Len(callStack), IF callStack = <<>> THEN {} ELSE OwnToken)

\* The request is for an account that exists and a message name its handler
\* defines.
Resolves(req) == req.self \in accounts /\ req.name \in DOMAIN HandlerMetadata

\* The router took the request req, from the external caller or from the
\* handler on top.
Invoke(req) == ExternalInvoke(req) \/ NestedInvoke(req)

\* The router rejected the request with code: the code went back to the
\* caller, the state handler was not called and no handler was.
Rejected(code) ==
    /\ delivery' = ResultDelivery(Len(callStack), code)
    /\ calls' = <<>>
    /\ callStack' = callStack
    /\ txs' = txs

\* C18: a request with a readonly state token (high bit clear) for a message
\* whose handler is volatile is rejected with code 5: the state handler is
\* not called (no begin_tx, commit_tx or rollback_tx) and the handler is not
\* called.
C18_ReadonlyTokenToVolatile ==
    [][\A req \in RequestsNow :
         (/\ Resolves(req)
          /\ HandlerMetadata[req.name] = "volatile"
          /\ req.token < HighBit
          /\ Invoke(req)) => Rejected(InvalidStateAccess)]_hvars

\* C18, witness: a volatile handler, which may send any message, has sent a
\* request that was rejected with code 5; nothing was called.
C18_Witness ==
    /\ Len(callStack) = 1 /\ callStack[1].volatility = "volatile"
    /\ delivery = ResultDelivery(1, InvalidStateAccess)
    /\ calls = <<>> /\ Len(txs) = 1

\* The router accepted a request: it called a handler.
Accepted == Len(callStack') = Len(callStack) + 1 /\ delivery'.kind = "request"

\* C19: when the router calls the handler of a request, the caller address it
\* passes is empty if the handler is pure, whatever caller address the
\* request carries, and is the caller address of the request if the handler
\* is volatile; a volatile handler called by another handler is always passed
\* the address of an account.
C19_CallerPassedByVolatility ==
    [][\A req \in RequestsNow :
         (Len(callStack') > Len(callStack) /\ Resolves(req) /\ Invoke(req)) =>
            /\ Accepted
            /\ HandlerMetadata[req.name] = "pure" => delivery'.caller = EmptyAddress
            /\ HandlerMetadata[req.name] = "volatile" =>
                  /\ delivery'.caller = req.caller
                  /\ callStack # <<>> => delivery'.caller \in Accounts]_hvars

\* C19, witness: a handler has called a pure handler; the request carried the
\* address of the caller (a request of a handler under no caller address is
\* not authorized), and the pure handler has been passed the empty address.
C19_Witness ==
    /\ Len(callStack) = 2 /\ callStack[2].volatility = "pure"
    /\ middleware = {}
    /\ delivery = RequestDelivery(2, EmptyAddress)

\* C20: for a request sent by a handler that resolves and keeps the
\* volatility rules, the real caller is the account of the frame of the
\* sending handler, whose context token the request carries.  If the caller
\* address of the request is the real caller, or the authorization middleware
\* approves the real caller acting as it, the handler is called; else the
\* request is rejected with code 6 and no handler is called.  Without
\* middleware only the real caller is accepted.
C20_RealCallerOrMiddleware ==
    [][\A req \in RequestsNow :
         (/\ callStack # <<>>
          /\ Resolves(req)
          /\ VolatilityRules(Top.volatility, HandlerMetadata[req.name],
                             req.token, req.token # Top.token)
          /\ NestedInvoke(req)) =>
             LET real == callStack[req.ctx].self IN
               /\ req.ctx = Len(callStack)
               /\ (req.caller = real \/ <<real, req.caller>> \in middleware)
                     => Accepted
               /\ (req.caller # real /\ <<real, req.caller>> \notin middleware)
                     => Rejected(UnauthorizedCaller)
               /\ middleware = {} => (Accepted <=> req.caller = real)]_hvars

\* C20, witness: with a middleware that lets account 1 act as account 2, a
\* handler of account 1 has called a volatile handler under the caller
\* address 2, and the handler has been passed that address.
C20_Witness ==
    /\ middleware = {<<1, 2>>}
    /\ Len(callStack) = 2 /\ callStack[1].self = 1
    /\ callStack[2].volatility = "volatile"
    /\ delivery = RequestDelivery(2, 2)

\* C21: when a handler implementation returns a code above 255, its caller is
\* returned that code; when it returns a system-level code (1..255, the
\* unwinding codes included), its caller is returned code 7 (invalid handler),
\* and the call ends as for any recoverable error: the frame is removed and
\* its transaction rolled back.
C21_ErrorCodePropagation ==
    [][\A code \in HandlerCodes :
         (hvState = "Dispatching" /\ HandlerReturns(code)) =>
            /\ code > MaxSystemCode =>
                  delivery' = ResultDelivery(Len(callStack) - 1, code)
            /\ code \in 1..MaxSystemCode =>
                  /\ delivery' = ResultDelivery(Len(callStack) - 1, InvalidHandler)
                  /\ callStack' = Popped
                  /\ calls' = <<RollbackTxCall(Top.token)>>]_hvars

\* C21, witness: a handler two calls deep has returned a code and its caller,
\* still executing, has been returned code 7.
C21_Witness ==
    /\ Len(callStack) = 1 /\ hvState = "Dispatching"
    /\ delivery = ResultDelivery(1, InvalidHandler)
    /\ calls = <<RollbackTxCall(callStack[1].token)>>

\* The gas the frame at depth i may still consume (its limit is positive).
Remaining(i) == callStack[i].gasLimit - gasConsumed

\* C22: a call made by a handler that runs under a gas limit runs under a
\* limit too, with no more gas remaining than its caller has, whatever state
\* token it is called with: the limit is inherited or tightened, never
\* loosened or dropped.  So a call is unmetered only if the external call
\* was made with gas limit 0 and no caller since has set one.  No handler
\* goes on executing with its limit exceeded.  Gas consumed never decreases
\* while an external invocation is in progress.
C22_GasNotBypassedByNesting ==
    /\ [](\A i \in 1..Len(callStack) :
            /\ (i > 1 /\ callStack[i - 1].gasLimit > 0) =>
                  /\ callStack[i].gasLimit > 0
                  /\ Remaining(i) <= Remaining(i - 1)
            /\ callStack[i].gasLimit = 0 =>
                  \A j \in 1..i : callStack[j].gasLimit = 0 /\ callStack[j].setter = 0
            /\ callStack[i].gasLimit > 0 => Remaining(i) >= 0)
    /\ [][/\ hvState = "Dispatching" => gasConsumed' >= gasConsumed
          /\ (hvState = "Dispatching" /\ Len(callStack') > Len(callStack)
                 /\ Top.gasLimit > 0) =>
                /\ Top'.gasLimit \in 1..Top.gasLimit
                /\ gasConsumed' = gasConsumed]_hvars

\* C22, witness: under a limit of 100 set by the external caller a handler
\* called with limit 50, that call nested a call with a new state token, and
\* 50 has been consumed: the innermost call runs under the limit of 50.
C22_Witness ==
    /\ Len(callStack) = 3 /\ hvState = "Dispatching"
    /\ callStack[1].gasLimit = 100
    /\ callStack[2].gasLimit = 50 /\ callStack[3].gasLimit = 50
    /\ callStack[3].isNew
    /\ gasConsumed = 50

-----------------------------------------------------------------------------
(* The account lifecycle: the module messages create and destroy, which the *)
(* hypervisor handles itself.                                                *)

\* The state handler call made when an account is created or destroyed.
LifecycleCall(op, address) == [op |-> op, token |-> 0, account |-> address]

\* The requests sent while accounts come and go: a volatile message to any
\* address under any caller address, with the state token in use.
LifecycleRequests(d, own) ==
    [self : Addresses,
     caller : Addresses,
     name : {"send"},
     token : IF d = 0 THEN {StateToken(TRUE, 1)} ELSE own,
     ctx : {d},
     gas : {0}]

\* The destroy messages that can be sent from depth d: for any address, under
\* any caller address, with the context token received.
DestroyRequests(d) == [address : Addresses, caller : Addresses, ctx : {d}]

\* create: the hypervisor generates the next address, maps it to the handler
\* and has the state handler create the account; the caller is returned 0.
\* The handler defines no on_create.
Create ==
    LET d == Len(callStack)
        address == created + 1
    IN  /\ address \in Addresses
        /\ accounts' = accounts \cup {address}
        /\ created' = created + 1
        /\ calls' = <<LifecycleCall("create", address)>>
        /\ delivery' = ResultDelivery(d, Success)
        /\ hvState' = StateAfter(d, Success)
        /\ UNCHANGED <<callStack, txs, gasConsumed, middleware, loadState, routes>>
        /\ UNCHANGED outsideRouter

\* The accounts as they would be if destroy kept the account.
DeregisterNothing(S, address) == S

\* The accounts without the account deleted.
Deregister(S, address) == S \ {address}

\* The error code with which destroy fails, zero if it does not: destroy can
\* only be called by the account itself, and only an account that exists can
\* be deleted.
DestroyCode(req) ==
    IF RealCaller(req) # req.address THEN UnauthorizedCaller
    ELSE IF req.address \notin accounts THEN AccountNotFound
    ELSE Success

\* destroy(address), sent by the external caller or by the handler on top:
\* the account is deleted and the state handler's destroy is called.
Destroy(req) ==
    LET d == Len(callStack)
        code == DestroyCode(req)
    IN  /\ IF code = Success
              THEN /\ accounts' = Deregister(accounts, req.address)
                   /\ calls' = <<LifecycleCall("destroy", req.address)>>
              ELSE /\ accounts' = accounts
                   /\ calls' = <<>>
        /\ delivery' = ResultDelivery(d, code)
        /\ hvState' = StateAfter(d, code)
        /\ UNCHANGED <<callStack, txs, gasConsumed, middleware, created,
                       loadState, routes>>
        /\ UNCHANGED outsideRouter

LifecycleNext ==
    \/ \E req \in LifecycleRequests(0, {}) : ExternalInvoke(req)
    \/ /\ callStack # <<>> /\ Len(callStack) < MaxEnforcerDepth
       /\ \E req \in LifecycleRequests(Len(callStack), OwnToken) : NestedInvoke(req)
    \/ \E code \in HandlerCodes : HandlerReturns(code)
    \/ Create
    \/ \E req \in DestroyRequests(Len(callStack)) : Destroy(req)

LifecycleSpec == HvInit /\ [][LifecycleNext]_hvars

-----------------------------------------------------------------------------
(* Modules: loaded by external calls while the hypervisor is set up, each    *)
(* with its module messages, which are routed by message name.               *)

\* The module handlers that can be loaded, by module name: the address of the
\* module and the module messages it defines handlers for.  bank and dex both
\* define module:send.
ModuleConfigs ==
    ("bank" :> [address |-> 1, messages |-> {"module:send", "module:mint"}]) @@
    ("dex" :> [address |-> 2, messages |-> {"module:swap", "module:send"}]) @@
    ("gov" :> [address |-> 3, messages |-> {"module:vote"}])

\* The module message names a request may carry: module:burn has no handler.
ModuleMessageNames ==
    UNION {ModuleConfigs[m].messages : m \in DOMAIN ModuleConfigs} \cup {"module:burn"}

\* The addresses a message name is routed to.
Targets(R, name) == {p[2] : p \in {q \in R : q[1] = name}}

\* Loading as it would be if no collision were looked for.
CollidesNever(R, messages) == FALSE

\* Whether a module with these module messages claims a message name that a
\* loaded module has claimed.
Collides(R, messages) == \E name \in messages : Targets(R, name) # {}

\* An external call loads the module handler of module name m: on a collision
\* loading fails for good and nothing is registered; else the module gets
\* its address and its module messages are routed to it.
LoadModule(m) ==
    LET c == ModuleConfigs[m] IN
      /\ loadState = "Loading"
      /\ c.address \notin accounts
      /\ IF Collides(routes, c.messages)
           THEN /\ loadState' = "Failed"
                /\ UNCHANGED <<accounts, routes>>
           ELSE /\ accounts' = accounts \cup {c.address}
                /\ routes' = routes \cup {<<name, c.address>> : name \in c.messages}
                /\ UNCHANGED loadState
      /\ UNCHANGED <<callStack, txs, gasConsumed, middleware, hvState, calls,
                     delivery, created>>
      /\ UNCHANGED outsideRouter

\* The modules are loaded: the hypervisor takes requests.
FinishLoading ==
    /\ loadState = "Loading"
    /\ loadState' = "Ready"
    /\ UNCHANGED <<callStack, txs, gasConsumed, middleware, hvState, calls,
                   delivery, accounts, created, routes>>
    /\ UNCHANGED outsideRouter

\* A module message, which names no receiving account, sent under the caller
\* address caller by the external caller or by the handler on top: the router
\* looks up the address by the message name and calls the module handler,
\* a volatile one, within a transaction.
ModuleInvoke(name, caller) ==
    LET d == Len(callStack)
        token == StateToken(TRUE, 1)
    IN  /\ loadState = "Ready"
        /\ d > 0 => caller = callStack[d].self
        /\ IF Targets(routes, name) = {}
             THEN /\ calls' = <<>>
                  /\ delivery' = ResultDelivery(d, MessageHandlerNotFound)
                  /\ hvState' = StateAfter(d, MessageHandlerNotFound)
                  /\ UNCHANGED <<callStack, txs>>
             ELSE \E target \in Targets(routes, name) :
                  /\ calls' = <<BeginTxCall(token, target)>>
                  /\ txs' = StateHandlerAll(txs, calls')
                  /\ callStack' = Append(callStack,
                        [self |-> target, volatility |-> "volatile",
                         token |-> token, isNew |-> FALSE,
                         gasLimit |-> 0, setter |-> 0])
                  /\ delivery' = RequestDelivery(d + 1, caller)
                  /\ hvState' = "Dispatching"
        /\ gasConsumed' = IF d = 0 THEN 0 ELSE gasConsumed
        /\ UNCHANGED <<middleware, registry>>
        /\ UNCHANGED outsideRouter

\* The hypervisor as constructed.
LoadInit ==
    /\ OutsideRouterNew
    /\ RouterNew

LoadNext ==
    \/ \E m \in DOMAIN ModuleConfigs : LoadModule(m)
    \/ FinishLoading
    \/ /\ Len(callStack) < MaxEnforcerDepth
       /\ \E name \in ModuleMessageNames, caller \in Addresses :
             ModuleInvoke(name, caller)
    \/ \E code \in HandlerCodes : HandlerReturns(code)
    \/ \E code \in MachineCodes : MachineFails(code)

LoadSpec == LoadInit /\ [][LoadNext]_hvars

\* The modules that are loaded.
Loaded == {m \in DOMAIN ModuleConfigs : ModuleConfigs[m].address \in accounts}

\* C24: loading a module that claims a module message name a loaded module
\* has claimed fails, in that step, and registers nothing; once loading has
\* failed it stays failed.  No message name is ever routed to two addresses,
\* and every loaded module has each of its message names routed to itself.
\* Until the modules are loaded, and for good once loading has failed, no
\* request is dispatched: no handler called, nothing returned, no state
\* handler call made.
C24_ModuleMessageCollision ==
    /\ [](/\ \A p \in routes, q \in routes : p[1] = q[1] => p[2] = q[2]
          /\ \A m \in Loaded : \A name \in ModuleConfigs[m].messages :
                Targets(routes, name) = {ModuleConfigs[m].address}
          /\ loadState # "Ready" =>
                /\ hvState = "Idle" /\ callStack = <<>>
                /\ delivery = NoDelivery /\ calls = <<>> /\ txs = <<>>)
    /\ [][/\ \A m \in DOMAIN ModuleConfigs :
               (/\ LoadModule(m)
                /\ \E o \in Loaded : ModuleConfigs[o].messages
                                         \cap ModuleConfigs[m].messages # {}) =>
                   /\ loadState' = "Failed"
                   /\ routes' = routes /\ accounts' = accounts
          /\ loadState = "Failed" => loadState' = "Failed"
          /\ loadState = "Ready" => loadState' = "Ready" /\ routes' = routes]_hvars

\* C24, witness: with bank and gov loaded, loading dex, which claims
\* module:send as bank does, has failed; no request has been dispatched.
C24_Witness ==
    /\ loadState = "Failed"
    /\ accounts = {1, 3}
    /\ Targets(routes, "module:send") = {1}
    /\ hvState = "Idle" /\ delivery = NoDelivery

-----------------------------------------------------------------------------
(* Message packets and data pointers: a packet passed from the environment  *)
(* of a caller (A) to the environment of a handler (B), and the output       *)
(* passed back.                                                              *)

\* The size of the message packet header in bytes.
HeaderSize == 512

\* The first 8 bytes of the hash of a message name.
NameHash(name) == IF name = "send" THEN 11 ELSE 22

\* The header fields other than the data pointers.
Headers ==
    {[messageName |-> n, selfAddress |-> 1, callerAddress |-> 2,
      contextToken |-> 1, stateToken |-> StateToken(TRUE, 1),
      messageNameHash |-> NameHash(n), gasLimit |-> g, gasConsumed |-> 0,
      reserved |-> 0] : n \in {"send", "balance"}, g \in {0, 100}}

\* The data a data pointer may reference, and where it may be kept: within
\* the packet after the header, or in a separate buffer.
Contents == {<<>>, <<7>>, <<7, 9>>}
Kinds == {"inline", "native"}

DataPointer(native, length, capacityOrOffset) ==
    [nativePointer |-> native, length |-> length,
     capacityOrOffset |-> capacityOrOffset]

\* content is stored in an environment with the buffers mem, for a packet
\* with the bytes data after its header: either appended to the packet, the
\* data pointer holding the offset of its start, or in a newly allocated
\* buffer of capacity Len(content) + slack, the data pointer holding the
\* native pointer and the capacity.
Store(kind, content, slack, data, mem) ==
    IF kind = "inline"
      THEN [ptr |-> DataPointer(0, Len(content), HeaderSize + Len(data)),
            data |-> data \o content,
            mem |-> mem]
      ELSE [ptr |-> DataPointer(Len(mem) + 1, Len(content), Len(content) + slack),
            data |-> data,
            mem |-> Append(mem, content \o [i \in 1..slack |-> 0])]

\* The copy as it would be if the buffer were allocated but not filled.
CopyZeroed(p, packet, mem) == [i \in 1..p.length |-> 0]

\* The bytes copied for a data pointer of packet in an environment with the
\* buffers mem: length bytes from the start of the data.
Copy(p, packet, mem) ==
    IF p.nativePointer = 0
      THEN SubSeq(packet.data, p.capacityOrOffset - HeaderSize + 1,
                  p.capacityOrOffset - HeaderSize + p.length)
      ELSE SubSeq(mem[p.nativePointer], 1, p.length)

\* A packet with header h and two inputs, as a caller prepares it, with the
\* buffers of its environment; the output data pointers have zero length.
Build(h, k1, c1, k2, c2) ==
    LET s1 == Store(k1, c1, 1, <<>>, <<>>)
        s2 == Store(k2, c2, 1, s1.data, s1.mem)
        none == DataPointer(0, 0, HeaderSize + Len(s2.data))
    IN  [packet |-> [header |-> h, input1 |-> s1.ptr, input2 |-> s2.ptr,
                     output1 |-> none, output2 |-> none, data |-> s2.data],
         mem |-> s2.mem]

\* An input data pointer of the source packet src is passed to an environment
\* with the buffers mem: data in a separate buffer, and data within the packet
\* when the target packet is allocated with the header only, is copied to a
\* buffer allocated for it, and the data pointer is made to point to it.
PassInput(p, src, srcMem, copyData, mem) ==
    IF p.nativePointer = 0 /\ copyData
      THEN [ptr |-> p, mem |-> mem]
      ELSE LET st == Store("native", Copy(p, src, srcMem), 0, <<>>, mem)
           IN  [ptr |-> st.ptr, mem |-> st.mem]

\* The packet is passed to the environment of the handler: the target packet
\* is allocated, with room for the data after the header or without, the
\* header is copied, and the input data pointers are passed.
PassRequest(copyData) ==
    /\ phase = "built"
    /\ LET i1 == PassInput(sourcePacket.input1, sourcePacket, memA, copyData, memB)
           i2 == PassInput(sourcePacket.input2, sourcePacket, memA, copyData, i1.mem)
       IN  /\ targetPacket' = [sourcePacket EXCEPT
                                 !.input1 = i1.ptr, !.input2 = i2.ptr,
                                 !.data = IF copyData THEN @ ELSE <<>>]
           /\ memB' = i2.mem
    /\ phase' = "passed"
    /\ UNCHANGED <<sourcePacket, memA>>
    /\ UNCHANGED outsidePackets

\* The handler executes: it writes content as one of its outputs, within its
\* packet or in a buffer of its environment, and marks gas as consumed.
HandlerExecutes(out, kind, content, gas) ==
    /\ phase = "passed"
    /\ LET st == Store(kind, content, 1, targetPacket.data, memB) IN
         /\ targetPacket' = [targetPacket EXCEPT
                               ![out] = st.ptr, !.data = st.data,
                               !.header.gasConsumed = gas]
         /\ memB' = st.mem
    /\ phase' = "executed"
    /\ UNCHANGED <<sourcePacket, memA>>
    /\ UNCHANGED outsidePackets

\* An output data pointer p of the target packet is passed back: its data is
\* copied to the environment of the caller and the data pointer of the source
\* packet, own, is made to point to it; a zero-length output is left as it is.
PassOutput(p, own, kind, data, mem) ==
    IF p.length = 0
      THEN [ptr |-> own, data |-> data, mem |-> mem]
      ELSE Store(kind, Copy(p, targetPacket, memB), 0, data, mem)

\* After execution the outputs are passed back and the output data pointers
\* of the source packet updated.
PassResult(kind) ==
    /\ phase = "executed"
    /\ LET o1 == PassOutput(targetPacket.output1, sourcePacket.output1, kind,
                            sourcePacket.data, memA)
           o2 == PassOutput(targetPacket.output2, sourcePacket.output2, kind,
                            o1.data, o1.mem)
       IN  /\ sourcePacket' = [sourcePacket EXCEPT
                                 !.output1 = o1.ptr, !.output2 = o2.ptr,
                                 !.data = o2.data]
           /\ memA' = o2.mem
    /\ phase' = "returned"
    /\ UNCHANGED <<targetPacket, memB>>
    /\ UNCHANGED outsidePackets

\* A caller has prepared a packet; the environment of the handler has no
\* buffer yet, or one.
MarshalInit ==
    /\ OutsidePacketsNew
    /\ \E h \in Headers, k1 \in Kinds, k2 \in Kinds, c1 \in Contents, c2 \in Contents :
          /\ sourcePacket = Build(h, k1, c1, k2, c2).packet
          /\ memA = Build(h, k1, c1, k2, c2).mem
    /\ targetPacket = <<>>
    /\ memB \in {<<>>, << <<5>> >>}
    /\ phase = "built"

MarshalNext ==
    \/ \E copyData \in BOOLEAN : PassRequest(copyData)
    \/ \E out \in {"output1", "output2"}, kind \in Kinds, content \in Contents,
          gas \in {0, 30} : HandlerExecutes(out, kind, content, gas)
    \/ \E kind \in Kinds : PassResult(kind)

MarshalSpec == MarshalInit /\ [][MarshalNext]_pvars

\* The bytes a data pointer of packet references in an environment with the
\* buffers mem; -1 where it references nothing.
Referenced(p, packet, mem) ==
    LET bytes == IF p.nativePointer = 0 THEN packet.data
                 ELSE IF p.nativePointer \in DOMAIN mem THEN mem[p.nativePointer]
                 ELSE <<>>
        from == IF p.nativePointer = 0 THEN p.capacityOrOffset - HeaderSize ELSE 0
    IN  [i \in 1..p.length |->
           IF from + i \in DOMAIN bytes THEN bytes[from + i] ELSE -1]

\* The data pointers of a packet.
PointerFields == {"input1", "input2", "output1", "output2"}

\* The data pointers with a zero native pointer hold an offset after the
\* header.
OffsetsAfterHeader(packet) ==
    \A f \in PointerFields :
       packet[f].nativePointer = 0 => packet[f].capacityOrOffset >= HeaderSize

\* C25: once the packet has been passed to the second environment, the
\* header fields of the target packet other than the data pointers are those
\* of the source packet, but for the gas the handler has marked as consumed,
\* and every input data pointer has the length and references the bytes its
\* counterpart of the source packet has; once the outputs have been passed
\* back, every output data pointer of the source packet has the length and
\* references the bytes its counterpart of the target packet has; passing
\* back changes no header field and no input of the source packet.  In both
\* packets a data pointer with zero native pointer holds an offset of at
\* least 512.
C25_PacketRoundTrip ==
    /\ [](phase \in {"passed", "executed", "returned"} =>
            /\ [targetPacket.header EXCEPT !.gasConsumed = 0] = sourcePacket.header
            /\ phase = "passed" => targetPacket.header = sourcePacket.header
            /\ \A f \in {"input1", "input2"} :
                  /\ targetPacket[f].length = sourcePacket[f].length
                  /\ Referenced(targetPacket[f], targetPacket, memB)
                        = Referenced(sourcePacket[f], sourcePacket, memA)
                  /\ \A i \in 1..sourcePacket[f].length :
                        Referenced(sourcePacket[f], sourcePacket, memA)[i] # -1
            /\ OffsetsAfterHeader(targetPacket))
    /\ [](phase = "returned" =>
            \A f \in {"output1", "output2"} :
               /\ sourcePacket[f].length = targetPacket[f].length
               /\ Referenced(sourcePacket[f], sourcePacket, memA)
                     = Referenced(targetPacket[f], targetPacket, memB)
               /\ \A i \in 1..targetPacket[f].length :
                     Referenced(targetPacket[f], targetPacket, memB)[i] # -1)
    /\ [](phase # "none" => OffsetsAfterHeader(sourcePacket))
    /\ [][phase # "none" =>
            /\ sourcePacket'.header = sourcePacket.header
            /\ \A f \in {"input1", "input2"} :
                  /\ sourcePacket'[f] = sourcePacket[f]
                  /\ Referenced(sourcePacket'[f], sourcePacket', memA')
                        = Referenced(sourcePacket[f], sourcePacket, memA)]_pvars

\* C25, witness: a packet with two bytes of input within the packet and two in
\* a separate buffer has been passed to an environment that had a buffer of
\* its own, with the header only; the handler has written two bytes of output
\* and marked gas as consumed, and the output has been passed back.
C25_Witness ==
    /\ phase = "returned"
    /\ sourcePacket.input1.nativePointer = 0 /\ sourcePacket.input1.length = 2
    /\ sourcePacket.input2.nativePointer # 0 /\ sourcePacket.input2.length = 2
    /\ targetPacket.input1.nativePointer = 2
    /\ targetPacket.header.gasConsumed = 30
    /\ sourcePacket.output1.length = 2

-----------------------------------------------------------------------------
(* The transaction factory: Factory.PrintUnsignedTx with what it calls.      *)
(* Factory methods have value receivers: each works on a copy of the Factory *)
(* it is called on.                                                          *)

\* The factories a call is made on.  Gas prices are in hundredths of a coin
\* per unit of gas and fees in coins; zero is none.
Factories ==
    [gas : {100, 200},
     simulateAndExecute : BOOLEAN,
     offline : BOOLEAN,
     generateOnly : BOOLEAN,
     chainID : {"", "chain"},
     fromAddress : {"", "addr"},
     accountNumber : {0, 5},
     sequence : {0},
     gasPrices : {0, 25},
     fees : {0, 10},
     memo : {""}]

\* The client contexts: offline or not, with what the node answers (whether
\* the account exists, its numbers, the adjusted gas of a simulation or its
\* failure) and whether the configuration has a JSON encoder.
ClientContexts ==
    [Offline : BOOLEAN,
     accountExists : BOOLEAN,
     accountNumber : {7},
     sequence : {9},
     adjusted : {100, 150},
     simulationFails : BOOLEAN,
     encoderIsNil : BOOLEAN]

\* WithGas returns a copy of the Factory with an updated gas value.
WithGas(f, gas) == [f EXCEPT !.gas = gas]

\* Prepare: the Factory with account number and sequence set where they were
\* zero, and the error.
Prepare(f, ctx) ==
    IF f.offline THEN [f |-> f, err |-> "nil"]
    ELSE IF f.fromAddress = ""
      THEN [f |-> f, err |-> "missing 'from address' field"]
    ELSE IF ~ctx.accountExists
      THEN [f |-> f, err |-> "account does not exist"]
    ELSE IF f.accountNumber = 0 \/ f.sequence = 0
      THEN [f |-> [f EXCEPT
                     !.accountNumber = IF @ = 0 THEN ctx.accountNumber ELSE @,
                     !.sequence = IF @ = 0 THEN ctx.sequence ELSE @],
            err |-> "nil"]
    ELSE [f |-> f, err |-> "nil"]

\* CalculateGas simulates the transaction on the node: the adjusted gas, and
\* the error.
CalculateGas(ctx, f) ==
    IF ctx.simulationFails THEN [adjusted |-> 0, err |-> "simulation failed"]
    ELSE [adjusted |-> ctx.adjusted, err |-> "nil"]

\* BuildUnsignedTx: the transaction with its gas limit and fee, and the error.
BuildUnsignedTx(f) ==
    LET fees == IF f.gasPrices # 0
                  THEN (f.gasPrices * f.gas + 99) \div 100
                  ELSE f.fees
        tx == [gasLimit |-> f.gas, feeAmount |-> fees, memo |-> f.memo]
    IN  IF f.offline /\ f.generateOnly /\ f.chainID # ""
          THEN [tx |-> <<>>, err |-> "chain ID cannot be used when offline and generate-only flags are set"]
        ELSE IF ~(f.offline /\ f.generateOnly) /\ f.chainID = ""
          THEN [tx |-> <<>>, err |-> "chain ID required but not specified"]
        ELSE IF f.gasPrices # 0 /\ f.fees # 0
          THEN [tx |-> <<>>, err |-> "cannot provide both fees and gas prices"]
        ELSE [tx |-> tx, err |-> "nil"]

\* What PrintUnsignedTx writes and returns.  The Factory that WithGas returns
\* at line 286 is not assigned: f keeps its gas.
PrintUnsignedTxResult(f, ctx) ==
    LET sim == f.simulateAndExecute
        prepared == Prepare(f, ctx)
        calc == CalculateGas(ctx, prepared.f)
        early == IF ~sim THEN "nil"
                 ELSE IF ctx.Offline THEN "cannot estimate gas in offline mode"
                 ELSE IF prepared.err # "nil" THEN prepared.err
                 ELSE calc.err
        dropped == WithGas(f, calc.adjusted)
        estimate == IF sim THEN <<[GasEstimate |-> f.gas]>> ELSE <<>>
        built == BuildUnsignedTx(f)
    IN  IF early # "nil"
          THEN [stderr |-> <<>>, output |-> <<>>, err |-> early]
        ELSE IF built.err # "nil"
          THEN [stderr |-> estimate, output |-> <<>>, err |-> built.err]
        ELSE IF ctx.encoderIsNil
          THEN [stderr |-> estimate, output |-> <<>>,
                err |-> "cannot print unsigned tx: tx json encoder is nil"]
        ELSE [stderr |-> estimate, output |-> <<built.tx>>, err |-> "nil"]

PrintUnsignedTx ==
    /\ printErr = "pending"
    /\ LET r == PrintUnsignedTxResult(factory, clientCtx) IN
         /\ stderr' = r.stderr
         /\ output' = r.output
         /\ printErr' = r.err
    /\ UNCHANGED <<factory, clientCtx>>
    /\ UNCHANGED outsideFactory

FactoryInit ==
    /\ OutsideFactoryNew
    /\ factory \in Factories
    /\ clientCtx \in ClientContexts
    /\ stderr = <<>>
    /\ output = <<>>
    /\ printErr = "pending"

FactorySpec == FactoryInit /\ [][PrintUnsignedTx]_fvars

\* C26: after PrintUnsignedTx on a factory with simulation requested: if the
\* client is offline an error is returned and neither an estimate nor a
\* transaction is printed; if it is not, and Prepare and the simulation
\* succeed, the one gas estimate printed is the adjusted gas of the
\* simulation, and a transaction printed has that gas as its gas limit.
C26_PrintsAdjustedGas ==
    (printErr # "pending" /\ factory.simulateAndExecute) =>
       /\ clientCtx.Offline =>
             printErr # "nil" /\ output = <<>> /\ stderr = <<>>
       /\ (/\ ~clientCtx.Offline
           /\ Prepare(factory, clientCtx).err = "nil"
           /\ ~clientCtx.simulationFails) =>
             /\ stderr = <<[GasEstimate |-> clientCtx.adjusted]>>
             /\ output # <<>> => output[1].gasLimit = clientCtx.adjusted

-----------------------------------------------------------------------------
(* The iterator of the SQLite storage backend (iterator.go).  The database   *)
(* and the sqlite3 statement are outside the file: the table is a set of     *)
(* rows, the prepared statement is the sequence of rows its query selects    *)
(* with a cursor, and Prepare, Bind, Step, Scan and Close can each fail.     *)

\* A []byte argument: Go tells nil from a slice of length zero.
NilSlice == [isNil |-> TRUE, bytes |-> <<>>]
Slice(b) == [isNil |-> FALSE, bytes |-> b]

\* len(s) > 0
NonEmpty(s) == Len(s.bytes) > 0

\* a sorts before b, byte by byte, a proper prefix first.
BytesLess(a, b) ==
    \E i \in 1..Len(b) :
       /\ i <= Len(a) + 1
       /\ \A j \in 1..(i - 1) : a[j] = b[j]
       /\ IF i = Len(a) + 1 THEN TRUE ELSE a[i] < b[i]

\* bytes.Compare(a, b), which is also how SQLite orders blobs.
BytesCompare(a, b) == IF a = b THEN 0 ELSE IF BytesLess(a, b) THEN -1 ELSE 1

\* version is a uint64; the model keeps this many bits of it.
VersionBits == 3

\* isHighBitSet(version)
IsHighBitSetNever(version) == FALSE
IsHighBitSet(version) == (version \div 2^(VersionBits - 1)) % 2 = 1

StoreKeys == {1, 2}
RowKeys == {<<1>>, <<1, 2>>, <<2>>}

\* A row of state_storage; the value tells the rows apart.
Row(s, k, v, t) ==
    [store_key |-> s, key |-> k, value |-> 10 * v + s, version |-> v,
     tombstone |-> t]

\* The rows a database is made of: key <<1>> written at version 1 and again
\* at version 2 and deleted at 3, <<1, 2>> written at 1 and deleted at 2,
\* <<2>> written at 2, and a row of another store.
RowPool ==
    {Row(1, <<1>>, 1, 0), Row(1, <<1>>, 2, 3), Row(1, <<1, 2>>, 1, 2),
     Row(1, <<2>>, 2, 0), Row(2, <<1>>, 1, 0)}

\* The databases: the last two rows with any of the others.
Databases ==
    {rows \in SUBSET RowPool :
        {Row(1, <<2>>, 2, 0), Row(2, <<1>>, 1, 0)} \subseteq rows}
EarliestVersions == {0, 2}

\* The bounds passed: none, of length zero, and a key.
StartBounds == {NilSlice, Slice(<<>>), Slice(<<1, 2>>)}
EndBounds == {NilSlice, Slice(<<>>), Slice(<<2>>)}

Queries ==
    [storeKey : StoreKeys, version : 1..(2^(VersionBits - 1)),
     start : StartBounds, end : EndBounds, reverse : BOOLEAN]

\* WHERE store_key = ? AND version <= ? [AND key >= ?] [AND key < ?]: the
\* key clauses are there for the bounds of length above zero.
KeyClause(rows, q) ==
    {r \in rows :
        /\ r.store_key = q.storeKey
        /\ r.version <= q.version
        /\ NonEmpty(q.start) => BytesCompare(r.key, q.start.bytes) >= 0
        /\ NonEmpty(q.end) => BytesCompare(r.key, q.end.bytes) < 0}

\* row_number() OVER (PARTITION BY key ORDER BY version DESC) = 1
RowNumberOne(rows) ==
    {r \in rows : \A o \in rows : o.key = r.key => o.version <= r.version}

\* x.tombstone = 0 OR x.tombstone > ?
NotTombstoned(r, target) == r.tombstone = 0 \/ r.tombstone > target

RECURSIVE Ascending(_)
\* ORDER BY x.key ASC, of rows with distinct keys.
Ascending(rows) ==
    IF rows = {} THEN <<>>
    ELSE LET first == CHOOSE r \in rows :
                         \A o \in rows : BytesCompare(r.key, o.key) <= 0
         IN  <<first>> \o Ascending(rows \ {first})

Reversed(seq) == [i \in 1..Len(seq) |-> seq[Len(seq) + 1 - i]]

\* ORDER BY x.key ASC or DESC
OrderBy(rows, reverse) ==
    IF reverse THEN Reversed(Ascending(rows)) ELSE Ascending(rows)

\* The rows the statement of newIterator selects, in order.
Select(rows, q) ==
    OrderBy({r \in RowNumberOne(KeyClause(rows, q)) :
                NotTombstoned(r, q.version)}, q.reverse)

\* A statement: its rows and its cursor, 0 before the first row and
\* Len(rows) + 1 when the rows are exhausted.  A nil *sqlite3.Stmt has none.
NilStmt == [isNil |-> TRUE, rows |-> <<>>, pos |-> 0]
Stmt(rows) == [isNil |-> FALSE, rows |-> rows, pos |-> 0]

\* stmt.Step(): an error, or the next row, or no more rows.  A step after
\* the last one has reported no more rows restarts the statement (SQLite
\* resets it) unless it is the error.
StepOutcomes(s) ==
    LET from == IF s.pos > Len(s.rows) THEN 0 ELSE s.pos IN
      {[stmt |-> s, hasRow |-> FALSE, err |-> "step"],
       [stmt |-> [s EXCEPT !.pos = from + 1], hasRow |-> from < Len(s.rows),
        err |-> "nil"]}

\* The iterator struct.
Iterator(start, end) ==
    [statement |-> NilStmt, key |-> <<>>, val |-> 0, start |-> start,
     end |-> end, valid |-> FALSE, err |-> "nil"]

\* parseRow as it would be if it marked the iterator valid for the row read.
parseRowRevalidates(it) ==
    {[it EXCEPT !.err = "scan", !.valid = FALSE],
     [it EXCEPT !.key = it.statement.rows[it.statement.pos].key,
                !.val = it.statement.rows[it.statement.pos].value,
                !.valid = TRUE]}

\* parseRow: Scan fails, or key and val are those of the row the statement
\* is on.
parseRow(it) ==
    {[it EXCEPT !.err = "scan", !.valid = FALSE],
     [it EXCEPT !.key = it.statement.rows[it.statement.pos].key,
                !.val = it.statement.rows[it.statement.pos].value]}

NoIterator == Iterator(NilSlice, NilSlice)

\* What newIterator can return: (nil, err) or (itr, nil).
Returns(it, wasMade, e) == [itr |-> it, made |-> wasMade, err |-> e]

\* newIterator once the statement is prepared and bound: the first Step and
\* the first parseRow.
FirstStep(rows, q) ==
    LET it == [Iterator(q.start, q.end) EXCEPT !.statement = Stmt(Select(rows, q))] IN
      UNION {IF o.err # "nil"
               THEN {[it EXCEPT !.statement = o.stmt, !.valid = o.hasRow,
                                !.err = "step"]}
               ELSE IF ~o.hasRow
                 THEN {[it EXCEPT !.statement = o.stmt, !.err = "norows"]}
                 ELSE parseRow([it EXCEPT !.statement = o.stmt, !.valid = TRUE])
             : o \in StepOutcomes(it.statement)}

newIterator(rows, earliest, q) ==
    IF IsHighBitSet(q.version)
      THEN {Returns(NoIterator, FALSE, "too large")}
      ELSE IF q.version < earliest
        THEN {Returns(Iterator(q.start, q.end), TRUE, "nil")}
        ELSE {Returns(NoIterator, FALSE, "prepare"),
              Returns(NoIterator, FALSE, "bind")}
             \cup {Returns(it, TRUE, "nil") : it \in FirstStep(rows, q)}

\* The outcome of a method call.
Outcome(op) ==
    [op |-> op, b |-> FALSE, key |-> <<>>, val |-> 0, err |-> "nil",
     panicked |-> FALSE]

\* Valid() with the end bound tested by its length.
ValidByLength(it) ==
    IF ~it.valid THEN [itr |-> it, b |-> FALSE]
    ELSE IF NonEmpty(it.end) /\ BytesCompare(it.end.bytes, it.key) <= 0
      THEN [itr |-> [it EXCEPT !.valid = FALSE], b |-> FALSE]
      ELSE [itr |-> it, b |-> TRUE]

\* Valid(): the iterator afterwards and the result.  The end bound is tested
\* when it is not nil.
Valid(it) ==
    IF ~it.valid THEN [itr |-> it, b |-> FALSE]
    ELSE IF ~it.end.isNil /\ BytesCompare(it.end.bytes, it.key) <= 0
      THEN [itr |-> [it EXCEPT !.valid = FALSE], b |-> FALSE]
      ELSE [itr |-> it, b |-> TRUE]

\* Next() on an iterator that has a statement: the iterators it can leave.
Stepped(it) ==
    UNION {IF o.err # "nil" \/ ~o.hasRow
             THEN {[it EXCEPT !.statement = o.stmt, !.err = o.err,
                              !.valid = FALSE]}
             ELSE parseRow([it EXCEPT !.statement = o.stmt, !.err = "nil"])
           : o \in StepOutcomes(it.statement)}

\* The loop for ; itr.Valid(); itr.Next() { itr.Key(); itr.Value() }: where
\* the caller is after a call of op at position at, "off" once it has left
\* the pattern, and "done" or "failed" for good once Valid() has ended it.
LoopAfter(at, op, b, e) ==
    IF at \in {"done", "failed"} THEN at
    ELSE IF op = "Error" THEN at
    ELSE IF at = "head" /\ op = "Valid"
      THEN IF b THEN "key" ELSE IF e \in {"nil", "norows"} THEN "done" ELSE "failed"
    ELSE IF at = "key" /\ op = "Key" THEN "val"
    ELSE IF at = "val" /\ op = "Value" THEN "next"
    ELSE IF at = "next" /\ op = "Next" THEN "head"
    ELSE "off"

NewIteratorCall ==
    /\ newErr = "pending"
    /\ \E o \in newIterator(storage, earliestVersion, query) :
          /\ itr' = o.itr
          /\ made' = o.made
          /\ newErr' = o.err
          /\ loop' = IF o.made THEN "head" ELSE "none"
    /\ called' = Outcome("newIterator")
    /\ UNCHANGED <<storage, earliestVersion, query, yielded>>
    /\ UNCHANGED outsideIterator

ValidCall ==
    /\ made
    /\ itr' = Valid(itr).itr
    /\ called' = [Outcome("Valid") EXCEPT !.b = Valid(itr).b]
    /\ loop' = LoopAfter(loop, "Valid", Valid(itr).b, itr.err)
    /\ UNCHANGED <<storage, earliestVersion, query, made, newErr, yielded>>
    /\ UNCHANGED outsideIterator

\* Next(): itr.statement.Step() on a nil statement dereferences it.
NextCall ==
    /\ made
    /\ IF itr.statement.isNil
         THEN /\ called' = [Outcome("Next") EXCEPT !.panicked = TRUE]
              /\ itr' = itr
         ELSE /\ itr' \in Stepped(itr)
              /\ called' = Outcome("Next")
    /\ loop' = LoopAfter(loop, "Next", FALSE, "nil")
    /\ UNCHANGED <<storage, earliestVersion, query, made, newErr, yielded>>
    /\ UNCHANGED outsideIterator

\* Key(): assertIsValid, then a copy of itr.key.
KeyCall ==
    /\ made
    /\ called' = IF itr.valid
                   THEN [Outcome("Key") EXCEPT !.key = itr.key]
                   ELSE [Outcome("Key") EXCEPT !.panicked = TRUE]
    /\ loop' = LoopAfter(loop, "Key", FALSE, "nil")
    /\ yielded' = IF loop = "key"
                    THEN Append(yielded, [key |-> itr.key, val |-> 0])
                    ELSE yielded
    /\ UNCHANGED <<storage, earliestVersion, query, itr, made, newErr>>
    /\ UNCHANGED outsideIterator

\* Value(): assertIsValid, then a copy of itr.val.
ValueCall ==
    /\ made
    /\ called' = IF itr.valid
                   THEN [Outcome("Value") EXCEPT !.val = itr.val]
                   ELSE [Outcome("Value") EXCEPT !.panicked = TRUE]
    /\ loop' = LoopAfter(loop, "Value", FALSE, "nil")
    /\ yielded' = IF loop = "val"
                    THEN [yielded EXCEPT ![Len(yielded)].val = itr.val]
                    ELSE yielded
    /\ UNCHANGED <<storage, earliestVersion, query, itr, made, newErr>>
    /\ UNCHANGED outsideIterator

\* Close(): closes the statement if there is one, which can fail, and leaves
\* the iterator invalid without a statement.
CloseCall ==
    /\ made
    /\ \E e \in IF itr.statement.isNil THEN {"nil"} ELSE {"nil", "close"} :
          called' = [Outcome("Close") EXCEPT !.err = e]
    /\ itr' = [itr EXCEPT !.valid = FALSE, !.statement = NilStmt]
    /\ loop' = LoopAfter(loop, "Close", FALSE, "nil")
    /\ UNCHANGED <<storage, earliestVersion, query, made, newErr, yielded>>
    /\ UNCHANGED outsideIterator

\* Error()
ErrorCall ==
    /\ made
    /\ called' = [Outcome("Error") EXCEPT !.err = itr.err]
    /\ loop' = LoopAfter(loop, "Error", FALSE, "nil")
    /\ UNCHANGED <<storage, earliestVersion, query, itr, made, newErr,
                   yielded>>
    /\ UNCHANGED outsideIterator

IterInit ==
    /\ OutsideIteratorNew
    /\ storage \in Databases
    /\ earliestVersion \in EarliestVersions
    /\ query \in Queries
    /\ itr = NoIterator
    /\ made = FALSE
    /\ newErr = "pending"
    /\ called = Outcome("none")
    /\ loop = "none"
    /\ yielded = <<>>

IterNext ==
    \/ NewIteratorCall
    \/ ValidCall
    \/ NextCall
    \/ KeyCall
    \/ ValueCall
    \/ CloseCall
    \/ ErrorCall

IterSpec == IterInit /\ [][IterNext]_ivars

\* The record of key k in the store of the query that is the latest at or
\* below the version of the query; defined when there is one.
LatestRecord(rows, q, k) ==
    CHOOSE r \in rows :
       /\ r.store_key = q.storeKey /\ r.key = k /\ r.version <= q.version
       /\ \A o \in rows :
             (o.store_key = q.storeKey /\ o.key = k /\ o.version <= q.version)
                => o.version <= r.version

\* The keys an iteration is to show: within the bounds that are given (a
\* bound of length zero is none), with a record at or below the version,
\* the latest of which is not tombstoned at or below the version.
VisibleKeys(rows, q) ==
    {k \in RowKeys :
        /\ NonEmpty(q.start) => BytesCompare(q.start.bytes, k) <= 0
        /\ NonEmpty(q.end) => BytesCompare(k, q.end.bytes) < 0
        /\ \E r \in rows :
              r.store_key = q.storeKey /\ r.key = k /\ r.version <= q.version
        /\ LET r == LatestRecord(rows, q, k) IN
             r.tombstone = 0 \/ r.tombstone > q.version}

\* C33: when the loop for ; itr.Valid(); itr.Next() has run to its end on an
\* iterator whose query was run (the version not below the earliest one) and
\* nothing in SQLite has failed, what Key() and Value() returned in its body
\* is: each visible key of the store once, with the value of its latest
\* record at or below the version, in ascending key order, descending when
\* reverse is set.
C33_IteratorYieldsVisibleKeys ==
    (loop = "done" /\ query.version >= earliestVersion) =>
       /\ {yielded[i].key : i \in 1..Len(yielded)} = VisibleKeys(storage, query)
       /\ \A i \in 1..Len(yielded) :
             yielded[i].val = LatestRecord(storage, query, yielded[i].key).value
       /\ \A i, j \in 1..Len(yielded) :
             i < j => BytesCompare(yielded[i].key, yielded[j].key)
                         = IF query.reverse THEN 1 ELSE -1

\* The row the statement of the iterator is on.
CurrentRow(it) == it.statement.rows[it.statement.pos]

\* C34: an iterator that is invalid (itr.valid is false: no more rows, a
\* step or scan error, Valid() having found the key at or past end, or
\* Close) stays invalid in every step, Valid() returns true only on a valid
\* iterator and leaves it invalid when it returns false, so it never returns
\* true again; Key() and Value() change nothing, return the key and value of
\* the current row when the iterator is valid and panic when it is not.
C34_ValidityMonotone ==
    [][/\ (made /\ ~itr.valid) => ~itr'.valid
       /\ ValidCall => /\ called'.b => (itr.valid /\ itr'.valid)
                       /\ ~called'.b => ~itr'.valid
       /\ KeyCall =>
             /\ itr' = itr
             /\ IF itr.valid
                  THEN ~called'.panicked /\ called'.key = CurrentRow(itr).key
                  ELSE called'.panicked
       /\ ValueCall =>
             /\ itr' = itr
             /\ IF itr.valid
                  THEN ~called'.panicked /\ called'.val = CurrentRow(itr).value
                  ELSE called'.panicked]_ivars

\* C34, witness: the loop has shown both rows and ended, a further Next()
\* has put the statement back on its first row, and Valid() has returned
\* false again.
C34_Witness ==
    /\ made /\ loop = "done" /\ Len(yielded) = 2
    /\ ~itr.statement.isNil /\ Len(itr.statement.rows) = 2
    /\ itr.statement.pos = 1 /\ itr.key = itr.statement.rows[1].key
    /\ called.op = "Valid" /\ ~called.b /\ ~itr.valid

\* C35: a bound of length zero is no bound, in Valid() as in the query: on
\* an iterator made with an end of length zero (nil or empty), Valid()
\* returns true as long as the iterator has a row, whatever its key.
C35_EmptyEndIsNoBound ==
    [][(ValidCall /\ itr.valid /\ ~NonEmpty(itr.end)) => called'.b]_ivars

\* C36: what newIterator returns.  For a version with the highest bit set:
\* an error and no iterator.  For a version below the earliest one: no
\* error and an iterator that is invalid and has no statement, on which
\* Close succeeds.  For a query that selects no visible row: an iterator
\* that is invalid and whose Error() is not nil.  And never an iterator that
\* is valid and has an error.
C36_NewIteratorOutcomes ==
    /\ [](newErr # "pending" =>
            /\ made <=> newErr = "nil"
            /\ query.version >= 2^(VersionBits - 1) => ~made
            /\ (made /\ itr.valid) => itr.err = "nil"
            /\ (called.op = "newIterator" /\ made) =>
                  /\ query.version < earliestVersion =>
                        ~itr.valid /\ itr.statement.isNil /\ itr.err = "nil"
                  /\ (/\ query.version >= earliestVersion
                      /\ VisibleKeys(storage, query) = {}) =>
                        ~itr.valid /\ itr.err # "nil")
    /\ [][(CloseCall /\ itr.statement.isNil) =>
             (called'.err = "nil" /\ ~called'.panicked /\ ~itr'.valid)]_ivars

\* C36, witness: newIterator has returned an iterator without error for a
\* version below the earliest one although the store has a visible key, and
\* Close has succeeded on it.
C36_Witness ==
    /\ made /\ newErr = "nil" /\ query.version < earliestVersion
    /\ VisibleKeys(storage, query) # {}
    /\ called.op = "Close" /\ called.err = "nil" /\ ~called.panicked
    /\ itr.statement.isNil /\ ~itr.valid

-----------------------------------------------------------------------------
(* The history of validator sets of the simulation (valset_history.go).      *)

\* How many Add calls are followed.
MaxAdds == 4

\* The values of maxElements a history is created with.
Capacities == {1, 2, 3}

\* A WeightedValidator; the address is a number, 0 for a nil address.
Validator(power, address) == [Power |-> power, Address |-> address]

\* The zero value of WeightedValidator.
ZeroValidator == Validator(0, 0)

\* The validator sets passed to Add: one with a validator of power zero and
\* an empty one.
ValSets == {<<Validator(0, 1), Validator(2, 2), Validator(1, 3)>>, <<>>}

\* By how much the block time advances from one block to the next.
TimeSteps == {1, 2}

\* a.Compare(b): higher power first, then the lower address.
Compare(a, b) ==
    IF a.Power < b.Power THEN 1
    ELSE IF a.Power > b.Power THEN -1
    ELSE IF a.Address < b.Address THEN -1
    ELSE IF a.Address > b.Address THEN 1 ELSE 0

\* The elements of s that f keeps, in order.
Kept(s, f(_)) == SelectSeq(s, f)

IsPowered(v) == v.Power # 0

\* slices.DeleteFunc(vals, Power == 0) with its result dropped: vals keeps
\* its length, the validators kept are moved to the front, and the rest is
\* zeroed, or, with a Go library before 1.22, left as it was.
DeleteFuncInPlace(vals) ==
    LET kept == Kept(vals, IsPowered)
        n == Len(kept)
    IN  {kept \o [i \in 1..(Len(vals) - n) |-> ZeroValidator],
         kept \o SubSeq(vals, n + 1, Len(vals))}

RECURSIVE SortFunc(_)
\* slices.SortFunc(vals, func(a, b) { return b.Compare(a) }): an element
\* that no other precedes comes first.
SortFunc(vals) ==
    IF vals = <<>> THEN <<>>
    ELSE LET i == CHOOSE i \in 1..Len(vals) :
                     \A j \in 1..Len(vals) : Compare(vals[j], vals[i]) <= 0
         IN  <<vals[i]>> \o SortFunc(SubSeq(vals, 1, i - 1)
                                       \o SubSeq(vals, i + 1, Len(vals)))

\* NewValSetHistory(maxElements)
NewValSetHistory(maxElements) ==
    [maxElements |-> maxElements, blockOffset |-> 1, vals |-> <<>>]

\* historicValSet{blockTime, vals}
HistoricValSet(blockTime, vals) == [blockTime |-> blockTime, vals |-> vals]

\* h.vals[1:]
Tail1(s) == SubSeq(s, 2, Len(s))

\* Add as it would be if it dropped the oldest entry without moving the
\* block offset.
AddKeepsOffset(h, newEntry) ==
    IF Len(h.vals) >= h.maxElements
      THEN [h EXCEPT !.vals = Append(Tail1(h.vals), newEntry)]
      ELSE [h EXCEPT !.vals = Append(h.vals, newEntry)]

\* Add, from the new entry on: the history afterwards.
Add(h, newEntry) ==
    IF Len(h.vals) >= h.maxElements
      THEN [h EXCEPT !.vals = Append(Tail1(h.vals), newEntry),
                     !.blockOffset = h.blockOffset + 1]
      ELSE [h EXCEPT !.vals = Append(h.vals, newEntry)]

\* TotalPower()
RECURSIVE TotalPower(_)
TotalPower(vals) ==
    IF vals = <<>> THEN 0 ELSE vals[1].Power + TotalPower(Tail1(vals))

\* The evidence MissBehaviour builds for entry n (from 0) and validator badVal.
Evidence(h, n, badVal) ==
    [Type |-> "DuplicateVote",
     Validator |-> badVal,
     Height |-> h.blockOffset + n,
     Time |-> h.vals[n + 1].blockTime,
     TotalVotingPower |-> TotalPower(h.vals[n + 1].vals),
     panicked |-> FALSE]

\* r.Intn(0), in MissBehaviour or in simsx.OneOf, panics.
NoEvidence ==
    [Type |-> "none", Validator |-> ZeroValidator, Height |-> 0, Time |-> 0,
     TotalVotingPower |-> 0, panicked |-> FALSE]
PanicEvidence == [NoEvidence EXCEPT !.panicked = TRUE]

\* The block time of the next block.
LastTime == IF added = <<>> THEN 0 ELSE added[Len(added)].blockTime

\* h.Add(blockTime, vals)
AddCall ==
    /\ Len(added) < MaxAdds
    /\ \E step \in TimeSteps, vals \in ValSets :
         \E deleted \in DeleteFuncInPlace(vals) :
            LET newEntry == HistoricValSet(LastTime + step, SortFunc(deleted)) IN
              /\ history' = Add(history, newEntry)
              /\ added' = Append(added, newEntry)
    /\ UNCHANGED evidence
    /\ UNCHANGED outsideHistory

\* h.MissBehaviour(r)
MissBehaviourCall ==
    /\ IF history.vals = <<>>
         THEN evidence' = PanicEvidence
         ELSE \E n \in 0..(Len(history.vals) - 1) :
                IF history.vals[n + 1].vals = <<>>
                  THEN evidence' = PanicEvidence
                  ELSE \E k \in 1..Len(history.vals[n + 1].vals) :
                         evidence' = Evidence(history, n,
                                              history.vals[n + 1].vals[k])
    /\ UNCHANGED <<history, added>>
    /\ UNCHANGED outsideHistory

HistoryInit ==
    /\ OutsideHistoryNew
    /\ \E maxElements \in Capacities : history = NewValSetHistory(maxElements)
    /\ added = <<>>
    /\ evidence = NoEvidence

HistoryNext == AddCall \/ MissBehaviourCall

HistorySpec == HistoryInit /\ [][HistoryNext]_vhvars

\* C37: after any Add calls on a history made with maxElements >= 1 it holds
\* at most maxElements entries; they are the entries added last, in the
\* order added; the entry at index i was added by the Add call number
\* blockOffset + i, which is its block height; and the evidence of
\* MissBehaviour carries the height at which the entry it chose (the one
\* whose block time it carries) was added.
C37_BoundedWindowWithHeights ==
    /\ Len(history.vals) <= history.maxElements
    /\ Len(history.vals) =
          IF Len(added) < history.maxElements THEN Len(added)
          ELSE history.maxElements
    /\ history.blockOffset + Len(history.vals) - 1 = Len(added)
    /\ \A i \in 0..(Len(history.vals) - 1) :
          history.vals[i + 1] = added[history.blockOffset + i]
    /\ evidence.Type = "DuplicateVote" =>
          /\ evidence.Height \in 1..Len(added)
          /\ added[evidence.Height].blockTime = evidence.Time
          /\ \E k \in 1..Len(added[evidence.Height].vals) :
                added[evidence.Height].vals[k] = evidence.Validator

\* C37, witness: four sets have been added to a history of two elements,
\* which has dropped the first two, and MissBehaviour has chosen the older
\* of the two left: its evidence is for height 3.
C37_Witness ==
    /\ history.maxElements = 2 /\ Len(added) = 4 /\ history.blockOffset = 3
    /\ evidence.Type = "DuplicateVote" /\ evidence.Height = 3
    /\ evidence.Time = added[3].blockTime

=============================================================================
